---------------------------- MODULE Spec2Model ----------------------------
(***************************************************************************)
(* Cluster transport and membership layer of Charry: the wire codec       *)
(* (package tcp), the per-peer ConnectionPool, the peer Node, the cluster  *)
(* Manager and the listener's connection handler (package cluster / tcp).  *)
(* Each component has its own specification over the shared variables;     *)
(* the variables of the components a specification does not exercise stay  *)
(* at their initial values.                                                *)
(***************************************************************************)
EXTENDS Integers, Sequences, FiniteSets, TLC

VARIABLES
    \* ---- codec: one byte stream between a writer and DecodeMsg
    wire,       \* bytes written to the stream and not yet consumed
    inflight,   \* the messages whose encodings were written, oldest first
    got,        \* outcome of the last DecodeMsg, with the message it answers
    nread       \* DecodeMsg calls made on the stream so far

codecVars == <<wire, inflight, got, nread>>

VARIABLES
    \* ---- ConnectionPool and the goroutines that use it
    pPhase,     \* "new" (not built), "ready" (returned), "failed" (constructor error)
    pSize,      \* poolSize
    conns,      \* conns[i]: "nil", "open" or "closed", for i in 0..poolSize-1
    closeCalls, \* closeCalls[i]: how many times conns[i].Close() was called
    freeConns,  \* the buffer of the freeConns channel, oldest first
    chanClosed, \* close(p.freeConns) has run
    closed,     \* p.closed
    pc,         \* pc[c]: "idle", "get" (Get past its closed check), "put" (Put past its)
    held,       \* held[c]: index of the connection Get returned to c, or NoConn
    putArg,     \* putArg[c]: the connection passed to the Put in progress
    panicked    \* a goroutine panicked (send on a closed channel)

poolVars == <<pPhase, pSize, conns, closeCalls, freeConns, chanClosed, closed,
              pc, held, putArg, panicked>>

VARIABLES
    \* ---- Manager: the peer map and the watch loop of WatchServices
    nodes,        \* m.nodes: serviceID -> the Node's Config
    selfApp,      \* config.Get().App: Type, Environment and Id of this instance
    lastIndex,    \* lastIndex of the watch loop
    isFirstCheck, \* isFirstCheck of the watch loop
    mOp,          \* what the last step did: "none", "error", "load", "diff", "same", "merge"
    mOld,         \* m.nodes when the last load or diff pass started
    mNew,         \* the services that pass was given: serviceID -> Meta
    mIndex,       \* meta.LastIndex of the response that pass was run for
    mCalls        \* the AddNode, UpdateNode and RemoveNode calls of that pass

managerVars == <<nodes, selfApp, lastIndex, isFirstCheck, mOp, mOld, mNew, mIndex, mCalls>>

VARIABLES
    \* ---- the membership source the watch loop queries
    healthy,      \* the healthy services it holds: serviceID -> Meta
    consulIndex,  \* the index it reports with them (meta.LastIndex)
    settled       \* the healthy set has changed for the last time

sourceVars == <<healthy, consulIndex, settled>>

VARIABLES
    \* ---- Manager: the Node objects of the map, Close and the watch goroutine
    mNodes,      \* m.nodes: serviceID -> the Node
    nObjs,       \* how many Nodes NewNode has created
    disconnects, \* how many times Disconnect was called on each of them
    mStopChan,   \* m.stopChan is closed
    closePc,     \* Manager.Close: "idle", "lock" (after close(m.stopChan)), "closed"
    closedNodes, \* the nodes Close has disconnected
    watchPc,     \* the watch goroutine: "select", "poll", "pass", "stopped"
    watchFirst,  \* its isFirstCheck
    watchOps,    \* the calls its pass has still to make
    watchHold,   \* the node its RemoveNode deleted and has still to disconnect
    appHold,     \* the same for a RemoveNode called by the application
    regLast      \* the AddNode, UpdateNode or RemoveNode call the last step made, if any

registryVars == <<mNodes, nObjs, disconnects, mStopChan, closePc, closedNodes,
                  watchPc, watchFirst, watchOps, watchHold, appHold, regLast>>

VARIABLES
    \* ---- Node: one peer with its monitor and heartbeat goroutines
    status,        \* n.status
    connPool,      \* n.connPool: "nil" or "pool"
    nPoolSize,     \* size of the pool n.connPool points to (0 without one)
    reconnectChan, \* number of signals buffered in n.reconnectChan (capacity 1)
    stopChan,      \* n.stopChan is closed
    conPc,         \* the Connect call: "none", "dial" (inside NewConnectionPool), "done"
    monPc,         \* monitorConnection: "none", "select", "dial" (in tryReconnect), "done"
    hbPc,          \* sendHeartbeat: "none", "select", "done"
    initHb,        \* the first heartbeat started by Connect: "none", "started", "returned", "leaked"
    firstPool,     \* n.connPool is the pool Connect built
    retryTimer,    \* the AfterFunc timer of tryReconnect: "off", "armed", "due"
    sinceTick,     \* time since the last heartbeat tick, in units of the retry delay
    allFailed,     \* the last heartbeat tick found the node Connected and every send failed
    dials,         \* pools tryReconnect started to build since the last heartbeat tick
    nodePanic,     \* close of the closed stopChan
    sendPc,        \* a SendReq call: "idle", or "got" (it holds a connection)
    sendPoolOpen,  \* the pool that connection came from has not been closed
    nLast          \* the last Connect or SendReq call that returned: what it
                   \* returned and whether its connection went back to the pool

\* The part of the node's state that belongs to a SendReq or Connect caller.
sendVars == <<sendPc, sendPoolOpen, nLast>>

nodeVars == <<status, connPool, nPoolSize, reconnectChan, stopChan, conPc, monPc,
              hbPc, initHb, firstPool, retryTimer, sinceTick, allFailed, dials,
              nodePanic, sendVars>>

VARIABLES
    \* ---- one accepted connection: the listener's handler and the peer's end
    lIn,     \* bytes the peer wrote that the handler's DecodeMsg has not read
    lOut,    \* bytes the handler wrote that the peer's receive loop has not read
    lConn,   \* the handler: "open" (in its loop), "closed" (returned) or "panic"
    lSent,   \* frames the peer has written on this connection
    cLast,   \* the last write of the peer: kind "none", "heartbeat" or "frame"
    lLast,   \* the last iteration of the handler: the message decoded, whether
             \* it took the heartbeat branch, and the frames it wrote
    rLast    \* the last iteration of the peer's receive loop: the message
             \* decoded and whether it was dropped as a heartbeat or routed

listenerVars == <<lIn, lOut, lConn, lSent, cLast, lLast, rLast>>

VARIABLES
    \* ---- Router
    handlers,    \* r.handlers: route key -> handler
    registered,  \* the handler last registered and not unregistered, per (module, cmd)
    dispatched   \* the last Router.Handle call: its arguments, the handler
                 \* invocations it made and what it returned

routerVars == <<handlers, registered, dispatched>>

VARIABLES
    \* ---- Node.receiveLoop on one connection of the node
    rIn,         \* bytes the remote end wrote that DecodeMsg has not read
    rSent,       \* frames the remote end has written
    rPc,         \* the loop: "loop", "returned" or "panic"
    rStop,       \* n.stopChan is closed
    rReconnect,  \* number of signals buffered in n.reconnectChan (capacity 1)
    rIter        \* the last iteration: how it ended, the message decoded, the
                 \* handler invocations made and what HandleResp returned

recvVars == <<rIn, rSent, rPc, rStop, rReconnect, rIter>>

VARIABLES
    \* ---- tcp.Server: the accept loop, the handlers and Stop
    sRunning,    \* s.running
    sListener,   \* s.listener: "open" or "closed"
    sCtxDone,    \* s.cancel() has been called
    sConns,      \* s.conns: the tracked connections
    sWg,         \* the counter of s.wg
    sHandlers,   \* the connections whose handler goroutine is running
    sOpen,       \* the accepted connections not yet closed on the server's end
    sDialed,     \* connections the clients have opened
    acceptPc,    \* Start: "none", "accept", "accepted", "added", "returned"
    acceptConn,  \* the connection the last Accept returned
    stopPc,      \* Stop: "idle", "closeAll", "wait", "returned"
    sLast        \* what returned in the last step, if anything: a Start or a Stop
                 \* that found the flag set or cleared already, or the accept loop

serverVars == <<sRunning, sListener, sCtxDone, sConns, sWg, sHandlers, sOpen, sDialed,
                acceptPc, acceptConn, stopPc, sLast>>

vars == <<codecVars, poolVars, managerVars, sourceVars, registryVars, nodeVars, listenerVars, routerVars, recvVars, serverVars>>

\* What the actions of one component leave alone.
notCodec == <<poolVars, managerVars, sourceVars, registryVars, nodeVars, listenerVars, routerVars, recvVars, serverVars>>
notPool == <<codecVars, managerVars, sourceVars, registryVars, nodeVars, listenerVars, routerVars, recvVars, serverVars>>
notManager == <<codecVars, poolVars, sourceVars, registryVars, nodeVars, listenerVars, routerVars, recvVars, serverVars>>
notNode == <<codecVars, poolVars, managerVars, sourceVars, registryVars, listenerVars, routerVars, recvVars, serverVars>>
notListener == <<codecVars, poolVars, managerVars, sourceVars, registryVars, nodeVars, routerVars, recvVars, serverVars>>
notSource == <<codecVars, poolVars, managerVars, registryVars, nodeVars, listenerVars, routerVars, recvVars, serverVars>>
notRegistry == <<codecVars, poolVars, managerVars, sourceVars, nodeVars, listenerVars, routerVars, recvVars, serverVars>>
notRouter == <<codecVars, poolVars, managerVars, sourceVars, registryVars, nodeVars, listenerVars, recvVars, serverVars>>
notRecv == <<codecVars, poolVars, managerVars, sourceVars, registryVars, nodeVars, listenerVars, routerVars, serverVars>>
notServer == <<codecVars, poolVars, managerVars, sourceVars, registryVars, nodeVars, listenerVars, routerVars, recvVars>>

(***************************************************************************)
(*                               Wire codec                                *)
(***************************************************************************)

MsgTypeRequest == 0
MsgTypeResponse == 1
HeaderSessionIdSize == 36
ClusterReqHeaderSize == 4 + 1 + 4 + 4 + HeaderSessionIdSize
ClusterRespHeaderSize == 4 + 1 + 4 + 4 + HeaderSessionIdSize + 4

\* Bounds of the codec inputs.
MaxPayload == 1
MaxFrames == 2

Max(S) == CHOOSE x \in S : \A y \in S : y <= x

\* A uint32 is kept as its two 16-bit halves, so that every 32-bit value is
\* representable and arithmetic wraps at 2^32 as in Go.
W16 == 256 * 256

FromInt(n) == [hi |-> (n \div W16) % W16, lo |-> n % W16]

\* v - 1 in uint32 arithmetic (0 - 1 wraps to 2^32 - 1)
DecU32(v) ==
    IF v.lo > 0 THEN [hi |-> v.hi, lo |-> v.lo - 1]
    ELSE IF v.hi > 0 THEN [hi |-> v.hi - 1, lo |-> W16 - 1]
    ELSE [hi |-> W16 - 1, lo |-> W16 - 1]

\* n < v for a small natural n and a uint32 v
LessThanU32(n, v) == v.hi > 0 \/ n < v.lo

\* binary.BigEndian.PutUint32 / Uint32
PutUint32(v) == << v.hi \div 256, v.hi % 256, v.lo \div 256, v.lo % 256 >>

Uint32(b) == [hi |-> b[1] * 256 + b[2], lo |-> b[3] * 256 + b[4]]

\* buf[n:] on a 1-based sequence holding buf[0..]
Drop(s, n) == SubSeq(s, n + 1, Len(s))

\* make([]byte, n): n zero bytes
ZeroBytes(n) == [i \in 1..n |-> 0]

\* padSessionId: cut to 36 bytes, or fill up with the zero bytes of make([]byte, n)
padSessionId(sessionId) ==
    IF Len(sessionId) >= HeaderSessionIdSize
    THEN SubSeq(sessionId, 1, HeaderSessionIdSize)
    ELSE sessionId \o ZeroBytes(HeaderSessionIdSize - Len(sessionId))

\* A trim that removes the spaces only and keeps the null bytes.
trimSessionId_SpacesOnly(sessionId) ==
    LET keep == {i \in 1..Len(sessionId) : sessionId[i] # 32}
    IN  IF keep = {} THEN <<>> ELSE SubSeq(sessionId, 1, Max(keep))

\* trimSessionId: drop the trailing spaces (32) and null bytes (0)
trimSessionId(sessionId) ==
    LET keep == {i \in 1..Len(sessionId) : sessionId[i] # 32 /\ sessionId[i] # 0}
    IN  IF keep = {} THEN <<>> ELSE SubSeq(sessionId, 1, Max(keep))

\* A message of either variant; a request carries no Code (kept 0 here).
ReqMsg(module, cmd, sid, payload) ==
    [typ |-> "req", Module |-> module, Cmd |-> cmd, SessionId |-> sid,
     Code |-> FromInt(0), Payload |-> payload]

RespMsg(module, cmd, sid, code, payload) ==
    [typ |-> "resp", Module |-> module, Cmd |-> cmd, SessionId |-> sid,
     Code |-> code, Payload |-> payload]

EncodeClusterReqMsg(msg) ==
    LET totalLen == ClusterReqHeaderSize + Len(msg.Payload)
    IN  PutUint32(FromInt(totalLen - 4)) \o <<MsgTypeRequest>>
        \o PutUint32(msg.Module) \o PutUint32(msg.Cmd)
        \o padSessionId(msg.SessionId) \o msg.Payload

\* A length field that counts itself.
EncodeClusterRespMsg_LenInclusive(msg) ==
    LET totalLen == ClusterRespHeaderSize + Len(msg.Payload)
    IN  PutUint32(FromInt(totalLen)) \o <<MsgTypeResponse>>
        \o PutUint32(msg.Module) \o PutUint32(msg.Cmd)
        \o padSessionId(msg.SessionId) \o PutUint32(msg.Code) \o msg.Payload

EncodeClusterRespMsg(msg) ==
    LET totalLen == ClusterRespHeaderSize + Len(msg.Payload)
    IN  PutUint32(FromInt(totalLen - 4)) \o <<MsgTypeResponse>>
        \o PutUint32(msg.Module) \o PutUint32(msg.Cmd)
        \o padSessionId(msg.SessionId) \o PutUint32(msg.Code) \o msg.Payload

Encode(msg) ==
    IF msg.typ = "req" THEN EncodeClusterReqMsg(msg) ELSE EncodeClusterRespMsg(msg)

NoMsg == [typ |-> "none", Module |-> FromInt(0), Cmd |-> FromInt(0),
          SessionId |-> <<>>, Code |-> FromInt(0), Payload |-> <<>>]

\* A decode outcome: kind is "ok", "err" (an error value) or "panic" (a slice
\* bound out of range); rest is what the reader still holds afterwards.
Outcome(kind, msg, rest) == [kind |-> kind, msg |-> msg, rest |-> rest]

\* decodeClusterReqMsg on the bytes r after the tag
decodeClusterReqMsg(r, msgLen) ==
    LET remainLen == DecU32(msgLen)
        buf == SubSeq(r, 1, remainLen.lo)
    IN  IF LessThanU32(Len(r), remainLen) THEN Outcome("err", NoMsg, <<>>)
        ELSE IF remainLen.lo < 44 THEN Outcome("panic", NoMsg, Drop(r, remainLen.lo))
        ELSE Outcome("ok",
                     ReqMsg(Uint32(SubSeq(buf, 1, 4)), Uint32(SubSeq(buf, 5, 8)),
                            trimSessionId(SubSeq(buf, 9, 44)), Drop(buf, 44)),
                     Drop(r, remainLen.lo))

\* decodeClusterRespMsg on the bytes r after the tag
decodeClusterRespMsg(r, msgLen) ==
    LET remainLen == DecU32(msgLen)
        buf == SubSeq(r, 1, remainLen.lo)
    IN  IF LessThanU32(Len(r), remainLen) THEN Outcome("err", NoMsg, <<>>)
        ELSE IF remainLen.lo < 48 THEN Outcome("panic", NoMsg, Drop(r, remainLen.lo))
        ELSE Outcome("ok",
                     RespMsg(Uint32(SubSeq(buf, 1, 4)), Uint32(SubSeq(buf, 5, 8)),
                             trimSessionId(SubSeq(buf, 9, 44)),
                             Uint32(SubSeq(buf, 45, 48)), Drop(buf, 48)),
                     Drop(r, remainLen.lo))

\* A DecodeMsg that takes every tag other than 0 as a response.
DecodeMsg_AnyTag(r) ==
    IF Len(r) < 5 THEN Outcome("err", NoMsg, <<>>)
    ELSE IF r[5] = MsgTypeRequest
         THEN decodeClusterReqMsg(Drop(r, 5), Uint32(SubSeq(r, 1, 4)))
         ELSE decodeClusterRespMsg(Drop(r, 5), Uint32(SubSeq(r, 1, 4)))

\* DecodeMsg on a reader holding the bytes r
DecodeMsg(r) ==
    IF Len(r) < 4 THEN Outcome("err", NoMsg, <<>>)
    ELSE IF Len(r) < 5 THEN Outcome("err", NoMsg, <<>>)
    ELSE LET msgLen == Uint32(SubSeq(r, 1, 4))
             isResp == r[5]
         IN  IF isResp = MsgTypeRequest THEN decodeClusterReqMsg(Drop(r, 5), msgLen)
             ELSE IF isResp = MsgTypeResponse THEN decodeClusterRespMsg(Drop(r, 5), msgLen)
             ELSE Outcome("err", NoMsg, Drop(r, 5))

\* ---- inputs of the codec specification

\* n distinct letters: "ABC..."
Letters(n) == [i \in 1..n |-> 64 + i]

\* Session ids: empty, short, of 35, 36 and 37 bytes, and with a space or a
\* null byte at the end or inside.
SessionIds ==
    { <<>>, <<97>>, <<97, 98>>, <<97, 32, 98>>, <<97, 32>>, <<97, 0>>, <<32>>,
      Letters(HeaderSessionIdSize - 1), Letters(HeaderSessionIdSize),
      Letters(HeaderSessionIdSize + 1), Letters(HeaderSessionIdSize - 1) \o <<32>> }

\* (Module, Cmd, Code) triples: zeros, the top value, distinct bytes everywhere.
Headers ==
    { <<FromInt(0), FromInt(0), FromInt(0)>>,
      <<FromInt(0), FromInt(1), FromInt(0)>>,
      <<[hi |-> 258, lo |-> 772], [hi |-> 1286, lo |-> 1800], [hi |-> 2314, lo |-> 2828]>>,
      <<[hi |-> 65535, lo |-> 65535], FromInt(256), [hi |-> 65280, lo |-> 0]>> }

BaseHeader == <<[hi |-> 258, lo |-> 772], [hi |-> 1286, lo |-> 1800], [hi |-> 2314, lo |-> 2828]>>

Payloads == UNION { [1..n -> {0, 255}] : n \in 0..MaxPayload }

MkMsg(typ, h, sid, payload) ==
    IF typ = "req" THEN ReqMsg(h[1], h[2], sid, payload)
    ELSE RespMsg(h[1], h[2], sid, h[3], payload)

\* The frames written: each field varied over its samples around a base frame.
Msgs ==
    UNION { { MkMsg(t, h, <<97, 98>>, <<255>>) : h \in Headers }
            \cup { MkMsg(t, BaseHeader, sid, <<255>>) : sid \in SessionIds }
            \cup { MkMsg(t, BaseHeader, <<97, 98>>, p) : p \in Payloads }
            : t \in {"req", "resp"} }

NoOutcome == [out |-> Outcome("none", NoMsg, <<>>), sent |-> NoMsg]

CodecInit ==
    /\ wire = <<>>
    /\ inflight = <<>>
    /\ got = NoOutcome
    /\ nread = 0

\* conn.Write(EncodeClusterReqMsg(msg)) / conn.Write(EncodeClusterRespMsg(msg)):
\* the writer puts up to MaxFrames frames back to back before the reader starts.
WriteFrame(msg) ==
    /\ got = NoOutcome
    /\ Len(inflight) < MaxFrames
    /\ wire' = wire \o Encode(msg)
    /\ inflight' = Append(inflight, msg)
    /\ UNCHANGED <<got, nread>>
    /\ UNCHANGED notCodec

\* One DecodeMsg call on the stream.
ReadFrame ==
    /\ inflight # <<>>
    /\ LET out == DecodeMsg(wire)
       IN  /\ got' = [out |-> out, sent |-> Head(inflight)]
           /\ wire' = out.rest
    /\ inflight' = Tail(inflight)
    /\ nread' = nread + 1
    /\ UNCHANGED notCodec

\* The stream is drained: start over.
ResetStream ==
    /\ inflight = <<>>
    /\ got # NoOutcome
    /\ got' = NoOutcome
    /\ wire' = <<>>
    /\ nread' = 0
    /\ UNCHANGED inflight
    /\ UNCHANGED notCodec

CodecNext ==
    \/ \E msg \in Msgs : WriteFrame(msg)
    \/ ReadFrame
    \/ ResetStream



\* ---- claims on the codec

RECURSIVE Flatten(_)
Flatten(msgs) == IF msgs = <<>> THEN <<>> ELSE Encode(Head(msgs)) \o Flatten(Tail(msgs))

ValidSessionId(sid) ==
    /\ Len(sid) <= HeaderSessionIdSize
    /\ sid = <<>> \/ sid[Len(sid)] \notin {32, 0}

\* C1: a frame of either variant whose session id has at most 36 bytes and does
\* not end in a space or a null byte decodes to a message of the same variant
\* with the same Module, Cmd, SessionId, Code and Payload.
C1_RoundTrip ==
    (got # NoOutcome /\ ValidSessionId(got.sent.SessionId))
        => (got.out.kind = "ok" /\ got.out.msg = got.sent)

\* C1 witness: a response with a full 36-byte session id came back unchanged.
C1_Witness ==
    /\ got.out.kind = "ok"
    /\ got.sent.typ = "resp"
    /\ Len(got.sent.SessionId) = HeaderSessionIdSize
    /\ got.sent.Payload # <<>>
    /\ got.out.msg = got.sent

\* C2: the length field of every encoded frame is the number of bytes after it,
\* 45 + len(payload) for a request and 49 + len(payload) for a response, and
\* DecodeMsg consumes exactly 4 + length bytes: what is left on the stream is
\* the frames not yet decoded, and each decode yields the next frame written.
C2_LengthField ==
    /\ \A i \in 1..Len(inflight) :
          LET f == Encode(inflight[i])
              len == Uint32(SubSeq(f, 1, 4))
          IN  /\ len = FromInt(Len(f) - 4)
              /\ len.hi = 0
              /\ len.lo = (IF inflight[i].typ = "req" THEN 45 ELSE 49)
                              + Len(inflight[i].Payload)
    /\ wire = Flatten(inflight)
    /\ got # NoOutcome =>
          /\ got.out.kind = "ok"
          /\ got.out.msg.typ = got.sent.typ
          /\ got.out.msg.Payload = got.sent.Payload

\* C2 witness: the second of two frames written back to back has been decoded.
C2_Witness ==
    /\ nread = 2
    /\ got.out.kind = "ok"
    /\ got.out.msg.typ = "resp"
    /\ got.out.msg.Payload = got.sent.Payload
    /\ wire = <<>>

Spaces(n) == [i \in 1..n |-> 32]

\* C28: the session id field, bytes 13..48 of a frame, is the session id cut
\* to 36 bytes or followed by spaces (0x20) up to 36 bytes, and the decoded
\* session id is the one sent without its trailing spaces and null bytes.
C28_SessionIdField ==
    /\ \A i \in 1..Len(inflight) :
          LET sid == inflight[i].SessionId
          IN  SubSeq(Encode(inflight[i]), 14, 49) =
                 IF Len(sid) >= HeaderSessionIdSize
                 THEN SubSeq(sid, 1, HeaderSessionIdSize)
                 ELSE sid \o Spaces(HeaderSessionIdSize - Len(sid))
    /\ got.out.kind = "ok" =>
          LET sid == got.sent.SessionId
              d == got.out.msg.SessionId
          IN  /\ d = <<>> \/ d[Len(d)] \notin {32, 0}
              /\ Len(d) <= Len(sid)
              /\ d = SubSeq(sid, 1, Len(d))
              /\ \A j \in (Len(d) + 1)..Len(sid) :
                    j <= HeaderSessionIdSize => sid[j] \in {32, 0}

(***************************************************************************)
(*                             ConnectionPool                              *)
(***************************************************************************)

\* Bounds of the pool specifications.
MaxPoolSize == 3
NumCallers == 3

DefaultPoolSize == 4

Callers == 1..NumCallers

\* A connection is named by its index in p.conns; these two are no index.
NoConn == 0 - 1
ForeignConn == 0 - 2

Slots == 0..(pSize - 1)

PoolIdle ==
    /\ pPhase = "new"
    /\ pSize = 0
    /\ conns = <<>>
    /\ closeCalls = <<>>
    /\ freeConns = <<>>
    /\ chanClosed = FALSE
    /\ closed = FALSE
    /\ pc = [c \in Callers |-> "idle"]
    /\ held = [c \in Callers |-> NoConn]
    /\ putArg = [c \in Callers |-> NoConn]
    /\ panicked = FALSE

\* poolSize <= 0 selects the default
EffectivePoolSize(poolSize) == IF poolSize <= 0 THEN DefaultPoolSize ELSE poolSize

\* The loop of ConnectionPool.Close over conns[0..n-1], where the Close of
\* connection errAt returns an error (errAt = n: none does): a nil entry is
\* skipped and the loop returns at the first error.
ClosedUpTo(cs, n, errAt) ==
    [i \in 0..(n - 1) |-> IF cs[i] # "nil" /\ i <= errAt THEN "closed" ELSE cs[i]]

CloseCallsUpTo(cs, calls, n, errAt) ==
    [i \in 0..(n - 1) |-> IF cs[i] # "nil" /\ i <= errAt THEN calls[i] + 1 ELSE calls[i]]

\* The indices whose Close may report the error: the non-nil ones, or n for none.
CloseErrChoices(cs, n) == {i \in 0..(n - 1) : cs[i] # "nil"} \cup {n}

\* NewConnectionPool(target, poolSize): dial poolSize connections in turn; the
\* dial of index failAt fails (failAt = size: none does), and then pool.Close()
\* runs on the partial pool and the constructor returns an error.
NewConnectionPool(poolSize, failAt, errAt) ==
    LET n == EffectivePoolSize(poolSize)
        dialed == [i \in 0..(n - 1) |-> IF i < failAt THEN "open" ELSE "nil"]
        zero == [i \in 0..(n - 1) |-> 0]
    IN  /\ pPhase \in {"new", "failed"}
        /\ ~panicked
        /\ failAt \in 0..n
        /\ pSize' = n
        /\ IF failAt = n
           THEN /\ errAt = n
                /\ pPhase' = "ready"
                /\ conns' = dialed
                /\ closeCalls' = zero
                /\ freeConns' = [i \in 1..n |-> i - 1]
                /\ chanClosed' = FALSE
                /\ closed' = FALSE
           ELSE /\ errAt \in CloseErrChoices(dialed, n)
                /\ pPhase' = "failed"
                /\ conns' = ClosedUpTo(dialed, n, errAt)
                /\ closeCalls' = CloseCallsUpTo(dialed, zero, n, errAt)
                /\ freeConns' = <<>>
                /\ chanClosed' = (errAt = n)
                /\ closed' = TRUE
        /\ UNCHANGED <<pc, held, putArg, panicked>>
        /\ UNCHANGED notPool

PoolUsable == pPhase = "ready" /\ ~panicked

\* Get, first half: the unlocked read of p.closed.
GetCheck(c) ==
    /\ PoolUsable
    /\ pc[c] = "idle"
    /\ held[c] = NoConn
    /\ pc' = [pc EXCEPT ![c] = IF closed THEN "idle" ELSE "get"]
    /\ UNCHANGED <<pPhase, pSize, conns, closeCalls, freeConns, chanClosed, closed,
                   held, putArg, panicked>>
    /\ UNCHANGED notPool

\* idx := <-p.freeConns can proceed: a buffered index, or a closed channel.
CanRecv == freeConns # <<>> \/ chanClosed

\* Get, second half: receive an index (the zero value 0 from a closed and
\* drained channel) and return conns[idx] with a nil error.
GetRecv(c) ==
    /\ PoolUsable
    /\ pc[c] = "get"
    /\ CanRecv
    /\ held' = [held EXCEPT ![c] = IF freeConns # <<>> THEN Head(freeConns) ELSE 0]
    /\ freeConns' = IF freeConns # <<>> THEN Tail(freeConns) ELSE freeConns
    /\ pc' = [pc EXCEPT ![c] = "idle"]
    /\ UNCHANGED <<pPhase, pSize, conns, closeCalls, chanClosed, closed, putArg, panicked>>
    /\ UNCHANGED notPool

\* Put(conn), first half: the unlocked read of p.closed; a closed pool drops conn.
PutCheck(c, conn) ==
    /\ PoolUsable
    /\ pc[c] = "idle"
    /\ pc' = [pc EXCEPT ![c] = IF closed THEN "idle" ELSE "put"]
    /\ putArg' = [putArg EXCEPT ![c] = IF closed THEN NoConn ELSE conn]
    /\ held' = [held EXCEPT ![c] = IF closed /\ held[c] = conn THEN NoConn ELSE held[c]]
    /\ UNCHANGED <<pPhase, pSize, conns, closeCalls, freeConns, chanClosed, closed, panicked>>
    /\ UNCHANGED notPool

\* A borrower returns the connection it got from Get.
PutHeld(c) == held[c] # NoConn /\ PutCheck(c, held[c])

\* The select of Put on a free list: send idx, or give up when the buffer is full.
SendOrDrop(free, idx) == IF Len(free) < pSize THEN Append(free, idx) ELSE free

\* A Put that finds the index and forgets to send it.
PutSend_Forget(c) ==
    /\ PoolUsable
    /\ pc[c] = "put"
    /\ pc' = [pc EXCEPT ![c] = "idle"]
    /\ held' = [held EXCEPT ![c] = IF held[c] = putArg[c] THEN NoConn ELSE held[c]]
    /\ putArg' = [putArg EXCEPT ![c] = NoConn]
    /\ UNCHANGED <<pPhase, pSize, conns, closeCalls, freeConns, chanClosed, closed, panicked>>
    /\ UNCHANGED notPool

\* Put(conn), second half: look conn up in p.conns and, when found, send its
\* index to the free list without blocking; a send on the closed channel panics.
PutSend(c) ==
    /\ PoolUsable
    /\ pc[c] = "put"
    /\ LET found == putArg[c] \in Slots
       IN  /\ panicked' = (found /\ chanClosed)
           /\ freeConns' = IF found /\ ~chanClosed
                           THEN SendOrDrop(freeConns, putArg[c]) ELSE freeConns
    /\ pc' = [pc EXCEPT ![c] = "idle"]
    /\ held' = [held EXCEPT ![c] = IF held[c] = putArg[c] THEN NoConn ELSE held[c]]
    /\ putArg' = [putArg EXCEPT ![c] = NoConn]
    /\ UNCHANGED <<pPhase, pSize, conns, closeCalls, chanClosed, closed>>
    /\ UNCHANGED notPool

\* Close(): under the lock, return if already closed; set closed, close the
\* connections in turn, returning at the first Close error, then close the
\* free-list channel.
Close(c, errAt) ==
    /\ PoolUsable
    /\ pc[c] = "idle"
    /\ errAt \in CloseErrChoices(conns, pSize)
    /\ IF closed
       THEN UNCHANGED <<conns, closeCalls, chanClosed, closed>>
       ELSE /\ closed' = TRUE
            /\ conns' = ClosedUpTo(conns, pSize, errAt)
            /\ closeCalls' = CloseCallsUpTo(conns, closeCalls, pSize, errAt)
            /\ chanClosed' = (errAt = pSize)
    /\ UNCHANGED <<pPhase, pSize, freeConns, pc, held, putArg, panicked>>
    /\ UNCHANGED notPool

\* The requested sizes.
PoolSizes == 1..MaxPoolSize

\* What the goroutines do with a pool once it is built; every Put here returns
\* the connection its caller got from Get.
PoolCalls ==
    \/ \E c \in Callers : GetCheck(c)
    \/ \E c \in Callers : GetRecv(c)
    \/ \E c \in Callers : PutHeld(c)
    \/ \E c \in Callers : PutSend(c)
    \/ \E c \in Callers, e \in 0..MaxPoolSize : Close(c, e)

PoolNext ==
    \/ \E n \in PoolSizes, k \in 0..MaxPoolSize, e \in 0..MaxPoolSize :
          NewConnectionPool(n, k, e)
    \/ PoolCalls

\* Put(conn) called with any connection: one the caller holds, one it does not
\* hold, or one that is not in the pool.
PutAny(c, conn) == PutCheck(c, conn)

\* As PoolNext, and any caller may pass any connection to Put. The free lists
\* with repeated indices multiply the states, so the pools are one size smaller.
PoolAnyNext ==
    \/ \E n \in 1..(MaxPoolSize - 1), k \in 0..MaxPoolSize, e \in 0..MaxPoolSize :
          NewConnectionPool(n, k, e)
    \/ PoolCalls
    \/ \E c \in Callers, conn \in Slots \cup {ForeignConn} : PutAny(c, conn)

\* ---- claims on the ConnectionPool

\* The callers that hold a connection Get returned and Put has not taken back.
Borrowers == {c \in Callers : held[c] # NoConn}

PoolOpen == pPhase = "ready" /\ ~closed

\* C3: on an open pool of size N whose Puts come from borrowers, a Get past its
\* closed check can receive exactly when fewer than N connections are borrowed:
\* the first N Gets do not block, a further Get blocks while all N are out, and
\* it can proceed once a borrower's Put has returned a slot.
C3_GetBlocksOnlyWhenExhausted ==
    PoolOpen =>
        \A c \in Callers :
            pc[c] = "get" => (CanRecv <=> Cardinality(Borrowers) < pSize)

\* C3 witness: N >= 2 connections are borrowed and one more Get is blocked.
C3_Witness ==
    /\ PoolOpen
    /\ pSize >= 2
    /\ Cardinality(Borrowers) = pSize
    /\ \E c \in Callers : pc[c] = "get" /\ ~CanRecv

\* C4: on an open pool no two callers hold the same slot index, and the free
\* list holds at most N entries, whatever Get and Put calls are made.
C4_SlotExclusive ==
    PoolOpen =>
        /\ \A c1, c2 \in Callers :
              (c1 # c2 /\ held[c1] # NoConn) => held[c1] # held[c2]
        /\ Len(freeConns) <= pSize

\* C5: once Close() has been called on the pool, no Get returns a connection.
C5_NoGetAfterClose ==
    [][ (pPhase = "ready" /\ closed) =>
            \A c \in Callers : held[c] = NoConn => held'[c] = NoConn ]_vars

\* C6: a constructor call that fails leaves none of the connections it opened
\* open, and one that succeeds returns a pool of exactly size connections, all
\* open and all on the free list.
C6_AllOrNothing ==
    [][ /\ (pPhase' = "failed" /\ conns' # conns) =>
              \A i \in 0..(pSize' - 1) : conns'[i] # "open"
        /\ (pPhase # "ready" /\ pPhase' = "ready") =>
              /\ \A i \in 0..(pSize' - 1) : conns'[i] = "open"
              /\ freeConns' = [i \in 1..pSize' |-> i - 1]
              /\ ~closed' ]_vars

\* The connections some caller holds.
Borrowed == {held[c] : c \in Callers} \ {NoConn}

\* C24: a Put of a connection that no caller holds, one that is not in the
\* pool or one that is already free, leaves the free list of an open pool as
\* it was.
C24_PutNotBorrowedIsNoop ==
    [][ \A c \in Callers :
           (PoolOpen /\ pc[c] = "put" /\ pc'[c] = "idle" /\ putArg[c] \notin Borrowed)
               => freeConns' = freeConns ]_vars

\* C25: once Close has been called on a pool, each of its connections is
\* closed and its Close was called exactly once, whether or not a Close
\* reported an error.
C25_AllClosedOnce ==
    (pPhase = "ready" /\ closed) =>
        \A i \in Slots : conns[i] = "closed" /\ closeCalls[i] = 1

\* C36: no Put reaches a send on the closed free-list channel, whatever way
\* it interleaves with Close: a Put under way when the pool is closed leaves
\* the free list as it was and no goroutine panics.
C36_PutNeverSendsOnClosed ==
    /\ [](~panicked)
    /\ [][ \A c \in Callers :
              (chanClosed /\ pc[c] = "put" /\ pc'[c] = "idle")
                  => (freeConns' = freeConns /\ ~panicked') ]_vars

(***************************************************************************)
(*                     Manager: watch loop and diff pass                   *)
(***************************************************************************)

\* Bound of the index the membership source reports.
MaxIndex == 3

\* A string of digits is the sequence of its characters.
Digits == <<"0", "1", "2", "3", "4", "5", "6", "7", "8", "9">>

IsDigit(ch) == \E d \in 1..10 : Digits[d] = ch

DigitVal(ch) == (CHOOSE d \in 1..10 : Digits[d] = ch) - 1

\* fmt's %d on a uint16
RECURSIVE FormatD(_)
FormatD(n) == IF n < 10 THEN <<Digits[n + 1]>>
              ELSE FormatD(n \div 10) \o <<Digits[(n % 10) + 1]>>

\* The digits a %d verb of Sscanf accepts: the longest prefix of digits.
RECURSIVE ScanNumber(_)
ScanNumber(str) ==
    IF str = <<>> \/ ~IsDigit(Head(str)) THEN <<>>
    ELSE <<Head(str)>> \o ScanNumber(Tail(str))

RECURSIVE Atoi(_)
Atoi(digs) == IF digs = <<>> THEN 0
              ELSE Atoi(SubSeq(digs, 1, Len(digs) - 1)) * 10 + DigitVal(digs[Len(digs)])

\* var id uint16; fmt.Sscanf(idStr, "%d", &id): id stays 0 when there is no
\* digit or the number does not fit 16 bits
ScanUint16(str) ==
    LET tok == ScanNumber(str)
    IN  IF tok = <<>> \/ Atoi(tok) >= W16 THEN 0 ELSE Atoi(tok)

\* var port int; fmt.Sscanf(portStr, "%d", &port)
ScanInt(str) ==
    LET tok == ScanNumber(str)
    IN  IF tok = <<>> THEN 0 ELSE Atoi(tok)

\* selfServiceID := fmt.Sprintf("%s-%s-%d", Type, Environment, Id): a service
\* id is kept as the triple of its three parts.
ServiceID(typ, env, id) == <<typ, env, FormatD(id)>>

SelfServiceID == ServiceID(selfApp.Type, selfApp.Environment, selfApp.Id)

\* A JSON object text is the sequence of its "key": value members; a Data map
\* is a function from keys to values.
JsonObject(members) == [kind |-> "object", members |-> members]

JsonInvalid == [kind |-> "invalid", members |-> <<>>]

EmptyData == [k \in {} |-> 0]

\* json.Unmarshal into a map: a later member with the same key wins
RECURSIVE Unmarshal(_)
Unmarshal(members) ==
    IF members = <<>> THEN EmptyData
    ELSE LET last == members[Len(members)]
             rest == Unmarshal(SubSeq(members, 1, Len(members) - 1))
         IN  [k \in DOMAIN rest \cup {last[1]} |->
                 IF k = last[1] THEN last[2] ELSE rest[k]]

\* json.Marshal of a map: the members in the order of their keys
RECURSIVE Marshal(_)
Marshal(data) ==
    IF DOMAIN data = {} THEN <<>>
    ELSE LET k == CHOOSE x \in DOMAIN data : \A y \in DOMAIN data : x <= y
         IN  <<<<k, data[k]>>>> \o Marshal([y \in DOMAIN data \ {k} |-> data[y]])

\* meta[key] of a Go map: the empty string for a missing key
MetaGet(meta, key) == IF key \in DOMAIN meta THEN meta[key] ELSE ""

AppConfig(id, typ, env, host, port, data) ==
    [Id |-> id, Type |-> typ, Environment |-> env, Host |-> host, Port |-> port,
     Data |-> data]

\* parseServiceConfig: never an error; a field that does not parse keeps its
\* zero value and a data text that is not an object leaves the empty map
parseServiceConfig(meta) ==
    AppConfig(IF "id" \in DOMAIN meta THEN ScanUint16(meta["id"]) ELSE 0,
              MetaGet(meta, "type"),
              MetaGet(meta, "environment"),
              MetaGet(meta, "host"),
              IF "port" \in DOMAIN meta THEN ScanInt(meta["port"]) ELSE 0,
              IF "data" \in DOMAIN meta /\ meta["data"].kind = "object"
              THEN Unmarshal(meta["data"].members) ELSE EmptyData)

\* A comparison that leaves the Data maps out.
isConfigChanged_NoData(old, new) ==
    \/ old.Id # new.Id
    \/ old.Type # new.Type
    \/ old.Environment # new.Environment
    \/ old.Host # new.Host
    \/ old.Port # new.Port

isConfigChanged(old, new) ==
    \/ old.Id # new.Id
    \/ old.Type # new.Type
    \/ old.Environment # new.Environment
    \/ old.Host # new.Host
    \/ old.Port # new.Port
    \/ Marshal(old.Data) # Marshal(new.Data)

\* ---- the peer map

EmptyNodes == [id \in {} |-> 0]

NoCalls == [add |-> {}, update |-> {}, remove |-> {}]

\* The map part of Manager.AddNode: an identity already present is kept as it is.
AddNode(ns, serviceID, appConfig) ==
    IF serviceID \in DOMAIN ns THEN ns
    ELSE [id \in DOMAIN ns \cup {serviceID} |->
             IF id = serviceID THEN appConfig ELSE ns[id]]

\* The map part of Manager.RemoveNode
RemoveNode(ns, serviceID) == [id \in DOMAIN ns \ {serviceID} |-> ns[id]]

\* Manager.UpdateNode: Node.UpdateConfig on the node found, nothing otherwise
UpdateNode(ns, serviceID, appConfig) ==
    IF serviceID \in DOMAIN ns
    THEN [id \in DOMAIN ns |-> IF id = serviceID THEN appConfig ELSE ns[id]]
    ELSE ns

\* The loops below carry st = [nodes, calls]: the map and the calls made so far.
Called(st, kind, ns, serviceID) ==
    [nodes |-> ns,
     calls |-> [k \in DOMAIN st.calls |->
                   IF k = kind THEN st.calls[k] \cup {serviceID} ELSE st.calls[k]]]

\* A load that does not skip this instance.
RECURSIVE loadExistingServices_WithSelf(_, _, _)
loadExistingServices_WithSelf(services, todo, st) ==
    IF todo = {} THEN st
    ELSE LET id == CHOOSE x \in todo : TRUE
         IN  loadExistingServices_WithSelf(services, todo \ {id},
                 Called(st, "add",
                        AddNode(st.nodes, id, parseServiceConfig(services[id])), id))

\* loadExistingServices: AddNode for every service but this instance
RECURSIVE loadExistingServices(_, _, _)
loadExistingServices(services, todo, st) ==
    IF todo = {} THEN st
    ELSE LET id == CHOOSE x \in todo : TRUE
         IN  loadExistingServices(services, todo \ {id},
                 IF id = SelfServiceID THEN st
                 ELSE Called(st, "add",
                             AddNode(st.nodes, id, parseServiceConfig(services[id])), id))

\* handleServiceChange, first loop: over currentServices, against the
\* snapshot existingNodeMap
RECURSIVE checkAdded(_, _, _, _)
checkAdded(currentServices, existingNodeMap, todo, st) ==
    IF todo = {} THEN st
    ELSE LET id == CHOOSE x \in todo : TRUE
             newConfig == parseServiceConfig(currentServices[id])
         IN  checkAdded(currentServices, existingNodeMap, todo \ {id},
                 IF id = SelfServiceID THEN st
                 ELSE IF id \notin DOMAIN existingNodeMap
                 THEN Called(st, "add", AddNode(st.nodes, id, newConfig), id)
                 ELSE IF isConfigChanged(existingNodeMap[id], newConfig)
                 THEN Called(st, "update", UpdateNode(st.nodes, id, newConfig), id)
                 ELSE st)

\* handleServiceChange, second loop: over existingNodeMap
RECURSIVE checkRemoved(_, _, _, _)
checkRemoved(currentServices, existingNodeMap, todo, st) ==
    IF todo = {} THEN st
    ELSE LET id == CHOOSE x \in todo : TRUE
         IN  checkRemoved(currentServices, existingNodeMap, todo \ {id},
                 IF id \notin DOMAIN currentServices
                 THEN Called(st, "remove", RemoveNode(st.nodes, id), id)
                 ELSE st)

handleServiceChange(services) ==
    LET existingNodeMap == nodes
        st1 == checkAdded(services, existingNodeMap, DOMAIN services,
                          [nodes |-> nodes, calls |-> NoCalls])
    IN  checkRemoved(services, existingNodeMap, DOMAIN existingNodeMap, st1)

\* ---- inputs of the manager specification

AppA == [Type |-> "game", Environment |-> "dev", Id |-> 1]
AppB == [Type |-> "game", Environment |-> "dev", Id |-> 12]
AppC == [Type |-> "gate", Environment |-> "dev", Id |-> 1]

\* The instances registered, and the ones this instance's config can name.
Apps == {AppA, AppB, AppC}
SelfApps == {AppA, AppB}

IdOf(app) == ServiceID(app.Type, app.Environment, app.Id)

BaseMeta(app) ==
    [type |-> app.Type, environment |-> app.Environment, host |-> "h1",
     id |-> FormatD(app.Id), port |-> <<"8", "0">>]

With(meta, key, val) ==
    [k \in DOMAIN meta \cup {key} |-> IF k = key THEN val ELSE meta[k]]

\* What a service may have registered: each field of the config changes for one
\* of them, and some texts differ while the config they parse to is the same.
MetasOf(app) ==
    {BaseMeta(app)} \cup
    IF app = AppA
    THEN { With(BaseMeta(app), "port", <<"8", "1">>),
           With(BaseMeta(app), "host", "h2"),
           With(BaseMeta(app), "environment", "prod") }
    ELSE IF app = AppB
    THEN { With(BaseMeta(app), "data", JsonObject(<< <<97, 1>>, <<98, 2>> >>)),
           With(BaseMeta(app), "data", JsonObject(<< <<98, 2>>, <<97, 1>> >>)),
           With(BaseMeta(app), "data", JsonInvalid) }
    ELSE { With(BaseMeta(app), "id", <<"7", "0", "0", "0", "0">>),
           With(BaseMeta(app), "id", <<"1", "x">>),
           With(BaseMeta(app), "type", "gate2") }

\* The healthy sets the membership source may return, serviceID -> Meta: any
\* set of the instances, at most one of them with a registration that is not
\* its base one.
ServiceSets ==
    UNION { { f \in [ {IdOf(a) : a \in S} -> UNION {MetasOf(a) : a \in S} ] :
                /\ \A a \in S : f[IdOf(a)] \in MetasOf(a)
                /\ Cardinality({a \in S : f[IdOf(a)] # BaseMeta(a)}) <= 1 }
            : S \in SUBSET Apps }

ManagerInit ==
    /\ nodes = EmptyNodes
    /\ selfApp = AppA
    /\ lastIndex = 0
    /\ isFirstCheck = TRUE
    /\ mOp = "none"
    /\ mOld = EmptyNodes
    /\ mNew = EmptyNodes
    /\ mIndex = 0
    /\ mCalls = NoCalls

NoPass ==
    /\ mOld' = EmptyNodes
    /\ mNew' = EmptyNodes
    /\ mIndex' = 0
    /\ mCalls' = NoCalls

\* An error branch that starts the watch over.
QueryError_StartsOver ==
    /\ mOp' = "error"
    /\ NoPass
    /\ lastIndex' = 0
    /\ isFirstCheck' = TRUE
    /\ UNCHANGED <<nodes, selfApp>>
    /\ UNCHANGED notManager

\* The query returned an error: sleep and query again.
QueryError ==
    /\ mOp' = "error"
    /\ NoPass
    /\ UNCHANGED <<nodes, selfApp, lastIndex, isFirstCheck>>
    /\ UNCHANGED notManager

\* The first response: record the index and load the services.
FirstResponse(index, services) ==
    /\ isFirstCheck
    /\ lastIndex' = index
    /\ isFirstCheck' = FALSE
    /\ \E st \in {loadExistingServices(services, DOMAIN services,
                                       [nodes |-> nodes, calls |-> NoCalls])} :
          /\ nodes' = st.nodes
          /\ mCalls' = st.calls
    /\ mOp' = "load"
    /\ mOld' = nodes
    /\ mNew' = services
    /\ mIndex' = index
    /\ UNCHANGED selfApp
    /\ UNCHANGED notManager

\* A ChangedResponse that also takes a response whose index is the last one seen.
ChangedResponse_NotOlder(index, services) ==
    /\ ~isFirstCheck
    /\ index >= lastIndex
    /\ lastIndex' = index
    /\ \E st \in {handleServiceChange(services)} :
          /\ nodes' = st.nodes
          /\ mCalls' = st.calls
    /\ mOp' = "diff"
    /\ mOld' = nodes
    /\ mNew' = services
    /\ mIndex' = index
    /\ UNCHANGED <<selfApp, isFirstCheck>>
    /\ UNCHANGED notManager

\* A later response with a newer index: record it and run the diff pass.
ChangedResponse(index, services) ==
    /\ ~isFirstCheck
    /\ index > lastIndex
    /\ lastIndex' = index
    /\ \E st \in {handleServiceChange(services)} :
          /\ nodes' = st.nodes
          /\ mCalls' = st.calls
    /\ mOp' = "diff"
    /\ mOld' = nodes
    /\ mNew' = services
    /\ mIndex' = index
    /\ UNCHANGED <<selfApp, isFirstCheck>>
    /\ UNCHANGED notManager

\* A later response whose index is not newer: nothing to do.
UnchangedResponse(index, services) ==
    /\ ~isFirstCheck
    /\ index <= lastIndex
    /\ mOp' = "same"
    /\ mOld' = EmptyNodes
    /\ mNew' = EmptyNodes
    /\ mIndex' = index
    /\ mCalls' = NoCalls
    /\ UNCHANGED <<nodes, selfApp, lastIndex, isFirstCheck>>
    /\ UNCHANGED notManager

\* config.MergeFromJSON on a configuration event: App of the global config,
\* and with it selfServiceID, changes.
MergeFromJSON(app) ==
    /\ app # selfApp
    /\ selfApp' = app
    /\ mOp' = "merge"
    /\ NoPass
    /\ UNCHANGED <<nodes, lastIndex, isFirstCheck>>
    /\ UNCHANGED notManager

ManagerNext ==
    \/ QueryError
    \/ \E index \in 0..MaxIndex, services \in ServiceSets : FirstResponse(index, services)
    \/ \E index \in 0..MaxIndex, services \in ServiceSets : ChangedResponse(index, services)
    \/ \E index \in 0..MaxIndex, services \in ServiceSets : UnchangedResponse(index, services)
    \/ \E app \in SelfApps : MergeFromJSON(app)

\* ---- claims on the Manager

PassOld == DOMAIN mOld

PassNew == DOMAIN mNew

\* The config registered for id differs from the one the map held.
ConfigDiffers(id) == mOld[id] # parseServiceConfig(mNew[id])

C19_FirstResponseLoads ==
    [][ /\ (isFirstCheck /\ ~isFirstCheck') =>
              /\ mOp' = "load"
              /\ lastIndex' = mIndex'
              /\ mCalls'.add = DOMAIN mNew' \ {SelfServiceID}
              /\ mCalls'.remove = {}
              /\ mCalls'.update = {}
              /\ DOMAIN nodes' = DOMAIN nodes \cup mCalls'.add
        /\ mOp' = "load" => (isFirstCheck /\ ~isFirstCheck')
        /\ ~isFirstCheck => ~isFirstCheck' ]_vars

\* C19 witness: the load has run for a fetched set that held the local
\* instance and a peer, under an index above zero.
C19_Witness ==
    /\ mOp = "load"
    /\ ~isFirstCheck
    /\ SelfServiceID \in DOMAIN mNew
    /\ mCalls.add # {}
    /\ lastIndex > 0

\* C20: a query error leaves the last-seen index, the first-response flag and
\* the node map as they were, and the loop goes on: the next query can be
\* answered.
C20_ErrorChangesNothing ==
    /\ [][ mOp' = "error" => UNCHANGED <<nodes, lastIndex, isFirstCheck>> ]_vars
    /\ [](mOp = "error" =>
             ENABLED (\E index \in 0..MaxIndex, services \in ServiceSets :
                         \/ FirstResponse(index, services)
                         \/ ChangedResponse(index, services)
                         \/ UnchangedResponse(index, services)))

\* C20 witness: an error after the load, with peers in the map and an index
\* recorded.
C20_Witness ==
    /\ mOp = "error"
    /\ ~isFirstCheck
    /\ lastIndex > 0
    /\ DOMAIN nodes # {}

\* C38: the last-seen index never decreases; after the first response a diff
\* pass is run only for a response whose index is greater than the last-seen
\* one, and a response whose index is not greater changes neither the index
\* nor the node map, after which the loop can take the next response.
C38_IndexMonotonic ==
    /\ [][ /\ lastIndex' >= lastIndex
           /\ mOp' = "diff" => (lastIndex' > lastIndex /\ lastIndex' = mIndex')
           /\ (~isFirstCheck /\ nodes' # nodes) => lastIndex' > lastIndex
           /\ mOp' = "same" =>
                 (mIndex' <= lastIndex /\ UNCHANGED <<nodes, lastIndex, isFirstCheck>>) ]_vars
    /\ [](mOp = "same" =>
             ENABLED (\E index \in 0..MaxIndex, services \in ServiceSets :
                         \/ ChangedResponse(index, services)
                         \/ UnchangedResponse(index, services)))

\* C38 witness: a response with the last-seen index was passed over, with an
\* index above 1 recorded and peers in the map.
C38_Witness ==
    /\ mOp = "same"
    /\ mIndex = lastIndex
    /\ lastIndex > 1
    /\ DOMAIN nodes # {}

\* ---- the watch loop against a membership source

\* The healthy sets of the source: any set of the instances, each with its
\* base registration.
HealthySets ==
    { [id \in {IdOf(a) : a \in S} |->
          BaseMeta(CHOOSE a \in S : IdOf(a) = id)] : S \in SUBSET Apps }

\* The source starts with no healthy service.
SourceInit ==
    /\ healthy = EmptyNodes
    /\ consulIndex = 1
    /\ settled = FALSE

\* The healthy set changes, or is written again, and the index advances; last
\* says that no change follows.
SourceChange(services, last) ==
    /\ ~settled
    /\ consulIndex < MaxIndex
    /\ healthy' = services
    /\ consulIndex' = consulIndex + 1
    /\ settled' = last
    /\ UNCHANGED notSource

\* The iterations of the watch loop when the query is answered by the source.
WatchFirst == FirstResponse(consulIndex, healthy)

WatchChanged == ChangedResponse(consulIndex, healthy)

WatchUnchanged == UnchangedResponse(consulIndex, healthy)

WatchNext ==
    \/ \E services \in HealthySets, last \in BOOLEAN : SourceChange(services, last)
    \/ QueryError
    \/ WatchFirst
    \/ WatchChanged
    \/ WatchUnchanged
    \/ \E app \in SelfApps : MergeFromJSON(app)

\* The healthy set has stopped changing and the watcher has not recorded the
\* index it is reported with.
SourceSettled == settled /\ (isFirstCheck \/ consulIndex > lastIndex)

\* C18: once the healthy set has stopped changing at a set reported with an
\* index the watcher has not recorded, the identities of the node map become
\* that set without the local identity, and stay so.
C18_EventuallyConsistent ==
    SourceSettled ~> [](DOMAIN nodes = DOMAIN healthy \ {SelfServiceID})

(***************************************************************************)
(*                  Node: connect, heartbeat and reconnect                 *)
(***************************************************************************)

NodeStatusDisconnected == 0
NodeStatusConnecting == 1
NodeStatusConnected == 2
NodeStatusFailed == 3

\* The heartbeat interval and the delay of the reconnect retry, in seconds.
HeartbeatIntervalSeconds == 10
RetryDelaySeconds == 5

\* Time advances in steps of the retry delay.
TicksPerHeartbeat == HeartbeatIntervalSeconds \div RetryDelaySeconds

\* Bounds of the node specification: the largest cfg.Server.ClusterConnCount,
\* and where the count of dials saturates.
NodeConns == 2
MaxDials == 3

NoCall == [op |-> "none", err |-> FALSE, returned |-> FALSE]

NodeInit ==
    /\ status = NodeStatusDisconnected
    /\ connPool = "nil"
    /\ nPoolSize = 0
    /\ reconnectChan = 0
    /\ stopChan = FALSE
    /\ conPc = "none"
    /\ monPc = "none"
    /\ hbPc = "none"
    /\ initHb = "none"
    /\ firstPool = FALSE
    /\ retryTimer = "off"
    /\ sinceTick = 0
    /\ allFailed = FALSE
    /\ dials = 0
    /\ nodePanic = FALSE
    /\ sendPc = "idle"
    /\ sendPoolOpen = FALSE
    /\ nLast = NoCall

\* select { case n.reconnectChan <- struct{}{}: default: }
SignalReconnect(ch) == IF ch < 1 THEN ch + 1 ELSE ch

\* Connect, up to the dial: the node has no pool, so the status is set to
\* Connecting and NewConnectionPool starts (poolMu is held until ConnectDone).
ConnectBegin ==
    /\ ~nodePanic
    /\ conPc = "none"
    /\ connPool = "nil"
    /\ status' = NodeStatusConnecting
    /\ conPc' = "dial"
    /\ UNCHANGED <<connPool, nPoolSize, reconnectChan, stopChan, monPc, hbPc, initHb,
                   firstPool, retryTimer, sinceTick, allFailed, dials, nodePanic>>
    /\ UNCHANGED sendVars
    /\ UNCHANGED notNode

\* Connect, from the result of NewConnectionPool: on an error the status is
\* Failed; otherwise the pool is installed, the status is Connected and the
\* first heartbeat, the monitor and the heartbeat loop are started.
ConnectDone(ok, poolSize) ==
    /\ ~nodePanic
    /\ conPc = "dial"
    /\ conPc' = "done"
    /\ IF ok
       THEN /\ connPool' = "pool"
            /\ nPoolSize' = poolSize
            /\ firstPool' = TRUE
            /\ status' = NodeStatusConnected
            /\ initHb' = "started"
            /\ monPc' = "select"
            /\ hbPc' = "select"
            /\ sinceTick' = 0
       ELSE /\ status' = NodeStatusFailed
            /\ UNCHANGED <<connPool, nPoolSize, firstPool, initHb, monPc, hbPc, sinceTick>>
    /\ UNCHANGED <<reconnectChan, stopChan, retryTimer, allFailed, dials, nodePanic>>
    /\ UNCHANGED sendVars
    /\ UNCHANGED notNode

\* The goroutine of the first heartbeat: Get, SendHeartbeat, DecodeMsg, Put;
\* when the send or the read fails it returns without the Put.
InitialHeartbeat(ok) ==
    /\ ~nodePanic
    /\ initHb = "started"
    /\ initHb' = IF ok THEN "returned" ELSE "leaked"
    /\ UNCHANGED <<status, connPool, nPoolSize, reconnectChan, stopChan, conPc, monPc,
                   hbPc, firstPool, retryTimer, sinceTick, allFailed, dials, nodePanic>>
    /\ UNCHANGED sendVars
    /\ UNCHANGED notNode

\* Connections of the current pool that are checked out and not given back.
Outstanding ==
    (IF firstPool /\ initHb \in {"started", "leaked"} THEN 1 ELSE 0)
        + (IF sendPc = "got" /\ sendPoolOpen THEN 1 ELSE 0)

\* Disconnect: close(n.stopChan), then close and drop the pool if there is one.
Disconnect ==
    /\ ~nodePanic
    /\ conPc # "dial"
    /\ IF stopChan
       THEN /\ nodePanic' = TRUE
            /\ UNCHANGED <<status, connPool, nPoolSize, firstPool, stopChan>>
       ELSE /\ stopChan' = TRUE
            /\ IF connPool # "nil"
               THEN /\ connPool' = "nil"
                    /\ nPoolSize' = 0
                    /\ firstPool' = FALSE
                    /\ status' = NodeStatusDisconnected
               ELSE UNCHANGED <<status, connPool, nPoolSize, firstPool>>
            /\ UNCHANGED nodePanic
    /\ UNCHANGED <<reconnectChan, conPc, monPc, hbPc, initHb, retryTimer, sinceTick,
                   allFailed, dials>>
    /\ sendPoolOpen' = (sendPoolOpen /\ (stopChan \/ connPool = "nil"))
    /\ UNCHANGED <<sendPc, nLast>>
    /\ UNCHANGED notNode

\* SendReq, up to the write: with a pool, Get takes a free connection.
SendReqGet ==
    /\ ~nodePanic
    /\ sendPc = "idle"
    /\ connPool # "nil"
    /\ Outstanding < nPoolSize
    /\ sendPc' = "got"
    /\ sendPoolOpen' = TRUE
    /\ UNCHANGED nLast
    /\ UNCHANGED <<status, connPool, nPoolSize, reconnectChan, stopChan, conPc, monPc,
                   hbPc, initHb, firstPool, retryTimer, sinceTick, allFailed, dials,
                   nodePanic>>
    /\ UNCHANGED notNode

\* SendReq whose write succeeds: it returns nil, and the deferred Put gives the
\* connection back unless the pool was closed meanwhile.
SendReqSucceeds ==
    /\ ~nodePanic
    /\ sendPc = "got"
    /\ sendPc' = "idle"
    /\ sendPoolOpen' = FALSE
    /\ nLast' = [op |-> "SendReq", err |-> FALSE, returned |-> sendPoolOpen]
    /\ UNCHANGED <<status, connPool, nPoolSize, reconnectChan, stopChan, conPc, monPc,
                   hbPc, initHb, firstPool, retryTimer, sinceTick, allFailed, dials,
                   nodePanic>>
    /\ UNCHANGED notNode

\* A SendReq that returns the write error without the reconnect signal.
SendReqFails_NoSignal ==
    /\ ~nodePanic
    /\ sendPc = "got"
    /\ sendPc' = "idle"
    /\ sendPoolOpen' = FALSE
    /\ nLast' = [op |-> "SendReq", err |-> TRUE, returned |-> sendPoolOpen]
    /\ UNCHANGED <<status, connPool, nPoolSize, reconnectChan, stopChan, conPc, monPc,
                   hbPc, initHb, firstPool, retryTimer, sinceTick, allFailed, dials,
                   nodePanic>>
    /\ UNCHANGED notNode

\* SendReq whose write fails: a reconnect is signalled, it returns the error,
\* and the deferred Put gives the connection back unless the pool was closed.
SendReqFails ==
    /\ ~nodePanic
    /\ sendPc = "got"
    /\ sendPc' = "idle"
    /\ sendPoolOpen' = FALSE
    /\ nLast' = [op |-> "SendReq", err |-> TRUE, returned |-> sendPoolOpen]
    /\ reconnectChan' = SignalReconnect(reconnectChan)
    /\ UNCHANGED <<status, connPool, nPoolSize, stopChan, conPc, monPc, hbPc, initHb,
                   firstPool, retryTimer, sinceTick, allFailed, dials, nodePanic>>
    /\ UNCHANGED notNode

\* SendReq without a pool: it returns the not-connected error.
SendReqNoPool ==
    /\ ~nodePanic
    /\ sendPc = "idle"
    /\ connPool = "nil"
    /\ nLast' = [op |-> "SendReq", err |-> TRUE, returned |-> FALSE]
    /\ UNCHANGED <<sendPc, sendPoolOpen>>
    /\ UNCHANGED <<status, connPool, nPoolSize, reconnectChan, stopChan, conPc, monPc,
                   hbPc, initHb, firstPool, retryTimer, sinceTick, allFailed, dials,
                   nodePanic>>
    /\ UNCHANGED notNode

\* A Connect that sets the status before it looks for the pool.
ConnectAgain_SetsConnecting ==
    /\ ~nodePanic
    /\ conPc = "done"
    /\ connPool # "nil"
    /\ status' = NodeStatusConnecting
    /\ nLast' = [op |-> "Connect", err |-> FALSE, returned |-> FALSE]
    /\ UNCHANGED <<sendPc, sendPoolOpen>>
    /\ UNCHANGED <<connPool, nPoolSize, reconnectChan, stopChan, conPc, monPc,
                   hbPc, initHb, firstPool, retryTimer, sinceTick, allFailed, dials,
                   nodePanic>>
    /\ UNCHANGED notNode

\* Connect on a node that owns a pool: it returns nil at once.
ConnectAgain ==
    /\ ~nodePanic
    /\ conPc = "done"
    /\ connPool # "nil"
    /\ nLast' = [op |-> "Connect", err |-> FALSE, returned |-> FALSE]
    /\ UNCHANGED <<sendPc, sendPoolOpen>>
    /\ UNCHANGED <<status, connPool, nPoolSize, reconnectChan, stopChan, conPc, monPc,
                   hbPc, initHb, firstPool, retryTimer, sinceTick, allFailed, dials,
                   nodePanic>>
    /\ UNCHANGED notNode

\* One tick of sendHeartbeat, HeartbeatInterval after the last one: with a pool
\* and status Connected, Get, SendHeartbeat and Put once per connection; failed
\* is the set of rounds whose send failed. A reconnect is signalled when
\* lastErr is set, that is when any round failed.
HeartbeatTick(failed) ==
    /\ ~nodePanic
    /\ hbPc = "select"
    /\ sinceTick = TicksPerHeartbeat
    /\ sinceTick' = 0
    /\ dials' = 0
    /\ IF connPool # "nil" /\ status = NodeStatusConnected
       THEN /\ Outstanding < nPoolSize
            /\ failed \subseteq 0..(nPoolSize - 1)
            /\ reconnectChan' = IF failed # {} THEN SignalReconnect(reconnectChan)
                                ELSE reconnectChan
            /\ allFailed' = (failed = 0..(nPoolSize - 1))
       ELSE /\ failed = {}
            /\ allFailed' = FALSE
            /\ UNCHANGED reconnectChan
    /\ UNCHANGED <<status, connPool, nPoolSize, stopChan, conPc, monPc, hbPc, initHb,
                   firstPool, retryTimer, nodePanic>>
    /\ UNCHANGED sendVars
    /\ UNCHANGED notNode

\* sendHeartbeat takes the stopChan case of its select.
HeartbeatStop ==
    /\ ~nodePanic
    /\ hbPc = "select"
    /\ stopChan
    /\ hbPc' = "done"
    /\ UNCHANGED <<status, connPool, nPoolSize, reconnectChan, stopChan, conPc, monPc,
                   initHb, firstPool, retryTimer, sinceTick, allFailed, dials, nodePanic>>
    /\ UNCHANGED sendVars
    /\ UNCHANGED notNode

\* monitorConnection takes the stopChan case of its select.
MonitorStop ==
    /\ ~nodePanic
    /\ monPc = "select"
    /\ stopChan
    /\ monPc' = "done"
    /\ UNCHANGED <<status, connPool, nPoolSize, reconnectChan, stopChan, conPc, hbPc,
                   initHb, firstPool, retryTimer, sinceTick, allFailed, dials, nodePanic>>
    /\ UNCHANGED sendVars
    /\ UNCHANGED notNode

\* monitorConnection receives a reconnect signal and runs tryReconnect up to
\* the dial: the old pool is closed and dropped, the status is not touched.
TryReconnectBegin ==
    /\ ~nodePanic
    /\ monPc = "select"
    /\ conPc # "dial"
    /\ reconnectChan > 0
    /\ reconnectChan' = reconnectChan - 1
    /\ connPool' = "nil"
    /\ nPoolSize' = 0
    /\ firstPool' = FALSE
    /\ monPc' = "dial"
    /\ dials' = IF dials < MaxDials THEN dials + 1 ELSE dials
    /\ UNCHANGED <<status, stopChan, conPc, hbPc, initHb, retryTimer, sinceTick,
                   allFailed, nodePanic>>
    /\ sendPoolOpen' = FALSE
    /\ UNCHANGED <<sendPc, nLast>>
    /\ UNCHANGED notNode

\* A tryReconnect that gives up after a failed dial.
TryReconnectDone_NoRetry(ok, poolSize) ==
    /\ ~nodePanic
    /\ monPc = "dial"
    /\ conPc # "dial"
    /\ monPc' = "select"
    /\ IF ok
       THEN /\ connPool' = "pool"
            /\ nPoolSize' = poolSize
            /\ status' = NodeStatusConnected
       ELSE UNCHANGED <<status, connPool, nPoolSize>>
    /\ UNCHANGED <<reconnectChan, stopChan, conPc, hbPc, initHb, firstPool, sinceTick,
                   allFailed, dials, nodePanic, retryTimer>>
    /\ UNCHANGED sendVars
    /\ UNCHANGED notNode

\* tryReconnect, from the result of NewConnectionPool: on an error the retry
\* timer is set and nothing else changes; otherwise the new pool is installed
\* and the status is set to Connected.
TryReconnectDone(ok, poolSize) ==
    /\ ~nodePanic
    /\ monPc = "dial"
    /\ conPc # "dial"
    /\ monPc' = "select"
    /\ IF ok
       THEN /\ connPool' = "pool"
            /\ nPoolSize' = poolSize
            /\ status' = NodeStatusConnected
            /\ UNCHANGED retryTimer
       ELSE /\ retryTimer' = "armed"
            /\ UNCHANGED <<status, connPool, nPoolSize>>
    /\ UNCHANGED <<reconnectChan, stopChan, conPc, hbPc, initHb, firstPool, sinceTick,
                   allFailed, dials, nodePanic>>
    /\ UNCHANGED sendVars
    /\ UNCHANGED notNode

\* The function of time.AfterFunc runs: a reconnect is signalled.
RetryTimerFires ==
    /\ ~nodePanic
    /\ retryTimer = "due"
    /\ retryTimer' = "off"
    /\ reconnectChan' = SignalReconnect(reconnectChan)
    /\ UNCHANGED <<status, connPool, nPoolSize, stopChan, conPc, monPc, hbPc, initHb,
                   firstPool, sinceTick, allFailed, dials, nodePanic>>
    /\ UNCHANGED sendVars
    /\ UNCHANGED notNode

\* The heartbeat loop is inside pool.Get with no free connection: it takes no
\* tick until one is given back.
HeartbeatBlocked ==
    /\ hbPc = "select"
    /\ connPool # "nil"
    /\ status = NodeStatusConnected
    /\ Outstanding >= nPoolSize

\* One retry delay passes: an armed timer becomes due, and the heartbeat ticker
\* comes closer to its next tick. Time does not pass a due timer, nor a tick
\* the heartbeat loop is ready to take.
AdvanceTime ==
    /\ ~nodePanic
    /\ retryTimer # "due"
    /\ (hbPc = "select" /\ sinceTick = TicksPerHeartbeat) => HeartbeatBlocked
    /\ (hbPc = "select" /\ sinceTick < TicksPerHeartbeat) \/ retryTimer = "armed"
    /\ sinceTick' = IF hbPc = "select" /\ sinceTick < TicksPerHeartbeat
                    THEN sinceTick + 1 ELSE sinceTick
    /\ retryTimer' = IF retryTimer = "armed" THEN "due" ELSE retryTimer
    /\ UNCHANGED <<status, connPool, nPoolSize, reconnectChan, stopChan, conPc, monPc,
                   hbPc, initHb, firstPool, allFailed, dials, nodePanic>>
    /\ UNCHANGED sendVars
    /\ UNCHANGED notNode

NodeNext ==
    \/ ConnectBegin
    \/ \E ok \in BOOLEAN, n \in 1..NodeConns : ConnectDone(ok, n)
    \/ \E ok \in BOOLEAN : InitialHeartbeat(ok)
    \/ Disconnect
    \/ SendReqGet
    \/ SendReqSucceeds
    \/ SendReqFails
    \/ SendReqNoPool
    \/ ConnectAgain
    \/ \E failed \in SUBSET (0..(NodeConns - 1)) : HeartbeatTick(failed)
    \/ HeartbeatStop
    \/ MonitorStop
    \/ TryReconnectBegin
    \/ \E ok \in BOOLEAN, n \in 1..NodeConns : TryReconnectDone(ok, n)
    \/ RetryTimerFires
    \/ AdvanceTime

\* ---- claims on the Node

\* C8: after a heartbeat tick on a Connected node in which the send failed on
\* every connection, the node is in status Connecting while the reconnect
\* dials, and at most one pool construction is started before the next tick.
C8_ReconnectViaConnecting ==
    allFailed =>
        /\ monPc = "dial" => status = NodeStatusConnecting
        /\ dials <= 1

\* C12: when a Disconnect call returns (it closed the stop channel), the status
\* is Disconnected and the node owns no pool, whatever they were before.
C12_DisconnectResets ==
    [][ (~stopChan /\ stopChan') =>
            (status' = NodeStatusDisconnected /\ connPool' = "nil") ]_vars

\* C13: the node's stop channel is closed at most once: no Disconnect call
\* closes it again (a close of a closed channel panics).
C13_StopChanClosedOnce == ~nodePanic

C15_ConnectAgainIsNoop ==
    [][ (connPool # "nil" /\ nLast'.op = "Connect" /\ nLast' # nLast) =>
            /\ ~nLast'.err
            /\ UNCHANGED <<status, connPool, nPoolSize, reconnectChan, stopChan, conPc,
                           monPc, hbPc, initHb, firstPool, retryTimer, dials, nodePanic>> ]_vars

\* C15 witness: Connect returned nil on a Connected node with its loops running.
C15_Witness ==
    /\ nLast.op = "Connect"
    /\ ~nLast.err
    /\ status = NodeStatusConnected
    /\ connPool # "nil"
    /\ monPc = "select"
    /\ hbPc = "select"

\* C16: a reconnect that has started on a node that is not disconnected leads
\* to a node that owns a pool again and is Connected, however many dials fail
\* on the way, if the peer is reachable in the end.
C16_ReconnectUntilConnected ==
    (monPc = "dial")
        ~> ((status = NodeStatusConnected /\ connPool = "pool") \/ stopChan)

\* C16 witness: a pool built by a reconnect after an earlier dial had failed.
C16_Witness ==
    /\ status = NodeStatusConnected
    /\ connPool = "pool"
    /\ ~firstPool
    /\ dials >= 2
    /\ ~stopChan

\* C17: a node whose first Connect failed leaves Failed for Connecting again.
C17_FailedIsRetried ==
    (status = NodeStatusFailed /\ ~stopChan)
        ~> (status = NodeStatusConnecting \/ stopChan)

\* The status steps a node may take: Disconnected -> Connecting,
\* Connecting -> Connected, Connecting -> Failed, Failed -> Connecting,
\* Connected -> Connecting, and any status -> Disconnected.
StatusSteps ==
    { <<NodeStatusDisconnected, NodeStatusConnecting>>,
      <<NodeStatusConnecting, NodeStatusConnected>>,
      <<NodeStatusConnecting, NodeStatusFailed>>,
      <<NodeStatusFailed, NodeStatusConnecting>>,
      <<NodeStatusConnected, NodeStatusConnecting>> }
    \cup { <<s, NodeStatusDisconnected>> :
              s \in {NodeStatusConnecting, NodeStatusConnected, NodeStatusFailed} }

\* C32: the status of a node changes only along StatusSteps; a reconnect whose
\* dial succeeds sets Connected from Connecting, and a reconnect whose dial
\* fails leaves the node Failed.
C32_StatusSteps ==
    /\ [][ status' # status => <<status, status'>> \in StatusSteps ]_vars
    /\ [][ (monPc = "dial" /\ monPc' = "select" /\ connPool' = "pool")
              => (status = NodeStatusConnecting /\ status' = NodeStatusConnected) ]_vars
    /\ [][ (monPc = "dial" /\ monPc' = "select" /\ connPool' = "nil")
              => status' = NodeStatusFailed ]_vars

\* A step that is one tick of the heartbeat loop.
HeartbeatTickStep ==
    /\ hbPc = "select"
    /\ sinceTick = TicksPerHeartbeat
    /\ sinceTick' = 0

\* C33: a heartbeat tick leaves a reconnect signal if and only if the node was
\* Connected with a pool and the send failed on every connection of the pool;
\* a tick with a successful send leaves the channel as it was. The channel
\* never holds more than one signal.
C33_SignalIffAllFailed ==
    /\ [][ HeartbeatTickStep =>
              IF allFailed' THEN reconnectChan' = 1
                            ELSE reconnectChan' = reconnectChan ]_vars
    /\ [](reconnectChan \in {0, 1})

\* C34: a node whose status is Connected owns a pool, and that pool is open
\* (n.connPool is set only to a pool just built and is dropped where the pool
\* is closed, so a pool the node owns is an open one).
C34_ConnectedHasPool ==
    status = NodeStatusConnected => connPool = "pool"

\* C35: once a Disconnect has returned (the stop channel is closed), no step
\* installs a pool on the node and no step moves its status away from
\* Disconnected.
C35_DisconnectIsFinal ==
    [][ stopChan =>
           /\ connPool' = "nil"
           /\ status = NodeStatusDisconnected => status' = NodeStatusDisconnected ]_vars

\* C37: whenever the node owns a pool and neither a SendReq nor the first
\* heartbeat is under way (a heartbeat tick is one step), every connection of
\* the pool is free: none is checked out and not given back.
C37_SlotConservation ==
    (connPool = "pool" /\ sendPc = "idle" /\ initHb # "started") => Outstanding = 0

(***************************************************************************)
(*            Manager: the node objects, Close and the watch loop          *)
(***************************************************************************)

\* How many Node objects NewNode may create in one behaviour.
MaxObjs == 2

\* The identities of the peers and the configs registered for them.
PeerIds == {"game-dev-2", "gate-dev-1"}
PeerConfigs == {"cfg1", "cfg2"}

\* No node: what GetNode returns for an identity that is not in the map.
NoNode ==
    [obj |-> 0, Config |-> "", status |-> NodeStatusDisconnected,
     connPool |-> FALSE, connectPending |-> FALSE]

\* NewNode, numbered obj, with the Connect goroutine AddNode starts for it
\* still to run.
NewNode(obj, appConfig) ==
    [obj |-> obj, Config |-> appConfig, status |-> NodeStatusDisconnected,
     connPool |-> FALSE, connectPending |-> TRUE]

EmptyMap == [id \in {} |-> NoNode]

NoRegCall == [op |-> "none", id |-> "", cfg |-> ""]

RegCall(op, id, cfg) == [op |-> op, id |-> id, cfg |-> cfg]

GetNode(serviceID) ==
    IF serviceID \in DOMAIN mNodes THEN mNodes[serviceID] ELSE NoNode

GetAllNodes == {mNodes[id] : id \in DOMAIN mNodes}

RegistryInit ==
    /\ mNodes = EmptyMap
    /\ nObjs = 0
    /\ disconnects = [o \in 1..MaxObjs |-> 0]
    /\ mStopChan = FALSE
    /\ closePc = "idle"
    /\ closedNodes = {}
    /\ watchPc = "select"
    /\ watchFirst = TRUE
    /\ watchOps = {}
    /\ watchHold = NoNode
    /\ appHold = NoNode
    /\ regLast = NoRegCall

\* Manager.AddNode: nothing for an identity in the map, else a new Node in
\* the map and its Connect started.
DoAddNode(serviceID, appConfig) ==
    /\ serviceID \notin DOMAIN mNodes => nObjs < MaxObjs
    /\ IF serviceID \in DOMAIN mNodes
       THEN UNCHANGED <<mNodes, nObjs>>
       ELSE /\ nObjs' = nObjs + 1
            /\ mNodes' = [id \in DOMAIN mNodes \cup {serviceID} |->
                             IF id = serviceID THEN NewNode(nObjs + 1, appConfig)
                             ELSE mNodes[id]]

\* An UpdateNode that tears the node down: pool dropped, status reset.
DoUpdateNode_TearsDown(serviceID, appConfig) ==
    /\ mNodes' = [id \in DOMAIN mNodes |->
                     IF id = serviceID
                     THEN [mNodes[id] EXCEPT !.Config = appConfig,
                                             !.connPool = FALSE,
                                             !.status = NodeStatusDisconnected]
                     ELSE mNodes[id]]
    /\ UNCHANGED nObjs

\* Manager.UpdateNode: Node.UpdateConfig on the node found.
DoUpdateNode(serviceID, appConfig) ==
    /\ mNodes' = [id \in DOMAIN mNodes |->
                     IF id = serviceID
                     THEN [mNodes[id] EXCEPT !.Config = appConfig]
                     ELSE mNodes[id]]
    /\ UNCHANGED nObjs

\* A RemoveNode that leaves the map entry in place.
DoRemoveNode_KeepsEntry(serviceID) ==
    /\ mNodes' = mNodes
    /\ UNCHANGED nObjs

\* Manager.RemoveNode, the part under nodesMu: the entry is deleted.
DoRemoveNode(serviceID) ==
    /\ mNodes' = [id \in DOMAIN mNodes \ {serviceID} |-> mNodes[id]]
    /\ UNCHANGED nObjs

\* Node.Disconnect as the Manager sees it: stopChan closed, the pool closed
\* and dropped and the status reset if there was a pool.
Disconnected(node) ==
    [node EXCEPT !.connPool = FALSE,
                 !.status = IF node.connPool THEN NodeStatusDisconnected ELSE @]

\* Disconnect was called on each of these nodes.
Counted(ns) ==
    [o \in 1..MaxObjs |->
        IF \E n \in ns : n.obj = o THEN disconnects[o] + 1 ELSE disconnects[o]]

\* What Connect makes of a node: a pool and Connected, or Failed.
Connected(node, ok) ==
    [node EXCEPT !.connectPending = FALSE,
                 !.connPool = ok,
                 !.status = IF ok THEN NodeStatusConnected ELSE NodeStatusFailed]

\* The Connect goroutine of a node of the map ends.
ConnectRuns(serviceID, ok) ==
    /\ serviceID \in DOMAIN mNodes
    /\ mNodes[serviceID].connectPending
    /\ mNodes' = [mNodes EXCEPT ![serviceID] = Connected(@, ok)]
    /\ regLast' = NoRegCall
    /\ UNCHANGED <<nObjs, disconnects, mStopChan, closePc, closedNodes, watchPc,
                   watchFirst, watchOps, watchHold, appHold>>
    /\ UNCHANGED notRegistry

\* The Connect goroutine of a node that Close has disconnected ends: Connect
\* does not look at stopChan.
ConnectRunsLate(node, ok) ==
    /\ node \in closedNodes
    /\ node.connectPending
    /\ closedNodes' = (closedNodes \ {node}) \cup {Connected(node, ok)}
    /\ regLast' = NoRegCall
    /\ UNCHANGED <<mNodes, nObjs, disconnects, mStopChan, closePc, watchPc,
                   watchFirst, watchOps, watchHold, appHold>>
    /\ UNCHANGED notRegistry

\* ---- calls of the application

AppUpdateNode(serviceID, appConfig) ==
    /\ appHold = NoNode
    /\ DoUpdateNode(serviceID, appConfig)
    /\ regLast' = RegCall("UpdateNode", serviceID, appConfig)
    /\ UNCHANGED <<disconnects, mStopChan, closePc, closedNodes, watchPc,
                   watchFirst, watchOps, watchHold, appHold>>
    /\ UNCHANGED notRegistry

AppRemoveNode(serviceID) ==
    /\ appHold = NoNode
    /\ DoRemoveNode(serviceID)
    /\ appHold' = GetNode(serviceID)
    /\ regLast' = RegCall("RemoveNode", serviceID, "")
    /\ UNCHANGED <<disconnects, mStopChan, closePc, closedNodes, watchPc,
                   watchFirst, watchOps, watchHold>>
    /\ UNCHANGED notRegistry

\* RemoveNode goes on after the unlock: Disconnect on the node it deleted.
AppRemoveDisconnect ==
    /\ appHold # NoNode
    /\ disconnects' = Counted({appHold})
    /\ appHold' = NoNode
    /\ regLast' = NoRegCall
    /\ UNCHANGED <<mNodes, nObjs, mStopChan, closePc, closedNodes, watchPc,
                   watchFirst, watchOps, watchHold>>
    /\ UNCHANGED notRegistry

\* ---- Manager.Close

\* close(m.stopChan)
CloseStopChan ==
    /\ closePc = "idle"
    /\ mStopChan' = TRUE
    /\ closePc' = "lock"
    /\ regLast' = NoRegCall
    /\ UNCHANGED <<mNodes, nObjs, disconnects, closedNodes, watchPc, watchFirst,
                   watchOps, watchHold, appHold>>
    /\ UNCHANGED notRegistry

\* Under nodesMu: Disconnect on every node of the map, and a fresh map.
CloseDisconnectAll ==
    /\ closePc = "lock"
    /\ disconnects' = Counted(GetAllNodes)
    /\ closedNodes' = {Disconnected(n) : n \in GetAllNodes}
    /\ mNodes' = EmptyMap
    /\ closePc' = "closed"
    /\ regLast' = NoRegCall
    /\ UNCHANGED <<nObjs, mStopChan, watchPc, watchFirst, watchOps, watchHold,
                   appHold>>
    /\ UNCHANGED notRegistry

\* ---- the watch loop, one step per statement that touches shared state

\* The responses: the healthy peers with the config registered for each.
Responses == UNION { [S -> PeerConfigs] : S \in SUBSET PeerIds }

\* The calls loadExistingServices makes.
LoadOps(services) ==
    { [kind |-> "add", id |-> id, cfg |-> services[id]] : id \in DOMAIN services }

\* The calls handleServiceChange makes, against the nodes GetAllNodes returned.
DiffOps(services) ==
    { [kind |-> "add", id |-> id, cfg |-> services[id]] :
          id \in DOMAIN services \ DOMAIN mNodes }
    \cup { [kind |-> "update", id |-> id, cfg |-> services[id]] :
          id \in { i \in DOMAIN services \cap DOMAIN mNodes :
                       mNodes[i].Config # services[i] } }
    \cup { [kind |-> "remove", id |-> id, cfg |-> ""] :
          id \in DOMAIN mNodes \ DOMAIN services }

\* The call the pass makes next: the loop over the fetched services comes
\* before the loop over the nodes.
NextOp ==
    IF \E op \in watchOps : op.kind # "remove"
    THEN CHOOSE op \in watchOps : op.kind # "remove"
    ELSE CHOOSE op \in watchOps : TRUE

\* The select at the top of the loop: stopChan closed, or the default branch.
WatchSelect ==
    /\ watchPc = "select"
    /\ watchPc' = IF mStopChan THEN "stopped" ELSE "poll"
    /\ regLast' = NoRegCall
    /\ UNCHANGED <<mNodes, nObjs, disconnects, mStopChan, closePc, closedNodes,
                   watchFirst, watchOps, watchHold, appHold>>
    /\ UNCHANGED notRegistry

\* The blocking query returns an error: sleep, continue.
WatchError ==
    /\ watchPc = "poll"
    /\ watchPc' = "select"
    /\ regLast' = NoRegCall
    /\ UNCHANGED <<mNodes, nObjs, disconnects, mStopChan, closePc, closedNodes,
                   watchFirst, watchOps, watchHold, appHold>>
    /\ UNCHANGED notRegistry

\* The blocking query returns services; newer: meta.LastIndex > lastIndex.
WatchResponse(services, newer) ==
    /\ watchPc = "poll"
    /\ watchFirst' = FALSE
    /\ watchOps' = IF watchFirst THEN LoadOps(services)
                   ELSE IF newer THEN DiffOps(services) ELSE {}
    /\ watchPc' = IF watchFirst \/ newer THEN "pass" ELSE "select"
    /\ regLast' = NoRegCall
    /\ UNCHANGED <<mNodes, nObjs, disconnects, mStopChan, closePc, closedNodes,
                   watchHold, appHold>>
    /\ UNCHANGED notRegistry

\* The next AddNode, UpdateNode or RemoveNode call of the pass.
WatchCall ==
    /\ watchPc = "pass"
    /\ watchHold = NoNode
    /\ watchOps # {}
    /\ watchOps' = watchOps \ {NextOp}
    /\ \/ /\ NextOp.kind = "add"
          /\ DoAddNode(NextOp.id, NextOp.cfg)
          /\ regLast' = RegCall("AddNode", NextOp.id, NextOp.cfg)
          /\ UNCHANGED watchHold
       \/ /\ NextOp.kind = "update"
          /\ DoUpdateNode(NextOp.id, NextOp.cfg)
          /\ regLast' = RegCall("UpdateNode", NextOp.id, NextOp.cfg)
          /\ UNCHANGED watchHold
       \/ /\ NextOp.kind = "remove"
          /\ DoRemoveNode(NextOp.id)
          /\ watchHold' = GetNode(NextOp.id)
          /\ regLast' = RegCall("RemoveNode", NextOp.id, "")
    /\ UNCHANGED <<disconnects, mStopChan, closePc, closedNodes, watchPc,
                   watchFirst, appHold>>
    /\ UNCHANGED notRegistry

\* RemoveNode of the pass goes on after the unlock.
WatchRemoveDisconnect ==
    /\ watchHold # NoNode
    /\ disconnects' = Counted({watchHold})
    /\ watchHold' = NoNode
    /\ regLast' = NoRegCall
    /\ UNCHANGED <<mNodes, nObjs, mStopChan, closePc, closedNodes, watchPc,
                   watchFirst, watchOps, appHold>>
    /\ UNCHANGED notRegistry

\* The pass has made its calls: back to the select.
WatchPassDone ==
    /\ watchPc = "pass"
    /\ watchOps = {}
    /\ watchHold = NoNode
    /\ watchPc' = "select"
    /\ regLast' = NoRegCall
    /\ UNCHANGED <<mNodes, nObjs, disconnects, mStopChan, closePc, closedNodes,
                   watchFirst, watchOps, watchHold, appHold>>
    /\ UNCHANGED notRegistry

RegistryNext ==
    \/ \E id \in PeerIds, ok \in BOOLEAN : ConnectRuns(id, ok)
    \/ \E node \in closedNodes, ok \in BOOLEAN : ConnectRunsLate(node, ok)
    \/ \E id \in PeerIds, cfg \in PeerConfigs : AppUpdateNode(id, cfg)
    \/ \E id \in PeerIds : AppRemoveNode(id)
    \/ AppRemoveDisconnect
    \/ CloseStopChan
    \/ CloseDisconnectAll
    \/ WatchSelect
    \/ WatchError
    \/ \E services \in Responses, newer \in BOOLEAN : WatchResponse(services, newer)
    \/ WatchCall
    \/ WatchRemoveDisconnect
    \/ WatchPassDone

\* ---- claims on the node objects of the Manager

\* The step is a call of the method op: every other step clears regLast.
RegStep(op) == regLast'.op = op

\* C21: UpdateNode for an identity in the map puts the config into the Node
\* the map holds, which stays the same object with its status, pool and
\* pending Connect as they were; no other node, no map entry and no node
\* being removed changes, and nothing is disconnected; for an identity not in
\* the map nothing changes at all.
C21_UpdateInPlace ==
    [][ RegStep("UpdateNode") =>
          /\ DOMAIN mNodes' = DOMAIN mNodes
          /\ \A id \in DOMAIN mNodes :
                /\ mNodes'[id].Config =
                      IF id = regLast'.id THEN regLast'.cfg ELSE mNodes[id].Config
                /\ mNodes'[id].obj = mNodes[id].obj
                /\ mNodes'[id].status = mNodes[id].status
                /\ mNodes'[id].connPool = mNodes[id].connPool
                /\ mNodes'[id].connectPending = mNodes[id].connectPending
          /\ UNCHANGED <<nObjs, disconnects, closedNodes, watchHold, appHold,
                         mStopChan>> ]_vars

\* C21 witness: UpdateNode has replaced the config of a connected node while
\* another node keeps a different config.
C21_Witness ==
    /\ regLast.op = "UpdateNode"
    /\ regLast.id \in DOMAIN mNodes
    /\ mNodes[regLast.id].Config = regLast.cfg
    /\ mNodes[regLast.id].connPool
    /\ mNodes[regLast.id].status = NodeStatusConnected
    /\ \E id \in DOMAIN mNodes : mNodes[id].Config # regLast.cfg

\* The nodes some goroutine can still reach through the Manager.
LiveObjs == {n.obj : n \in GetAllNodes \cup {watchHold, appHold}}

\* Disconnect was never called on a node that is in the map or with a
\* RemoveNode call that has still to disconnect it, and was called once on
\* every other node created so far.
DisconnectedOnce ==
    \A o \in 1..nObjs : disconnects[o] = IF o \in LiveObjs THEN 0 ELSE 1

\* C22: RemoveNode for an identity in the map deletes the entry, so GetNode
\* returns nil and GetAllNodes does not list the node, and goes on to
\* disconnect that node; for an identity not in the map the map is unchanged
\* and no node is taken to disconnect; no node is disconnected twice, and a
\* node that left the map is disconnected once RemoveNode has returned.
C22_RemoveDeletesAndDisconnects ==
    /\ [][ \A removed \in PeerIds :
             (RegStep("RemoveNode") /\ regLast'.id = removed) =>
                /\ GetNode(removed)' = NoNode
                /\ GetAllNodes' = GetAllNodes \ {GetNode(removed)}
                /\ \A id \in PeerIds \ {removed} : GetNode(id)' = GetNode(id)
                /\ UNCHANGED disconnects
                /\ <<watchHold', appHold'>> \in
                      { <<GetNode(removed), appHold>>,
                        <<watchHold, GetNode(removed)>> } ]_vars
    /\ []DisconnectedOnce

\* C22 witness: RemoveNode has returned for a node, disconnected once, and
\* another node is still in the map.
C22_Witness ==
    /\ closePc = "idle"
    /\ watchHold = NoNode
    /\ appHold = NoNode
    /\ mNodes # EmptyMap
    /\ \E o \in 1..nObjs : o \notin LiveObjs /\ disconnects[o] = 1

\* C23: once Close has returned the map is empty and stays empty, and every
\* node that was in the map is disconnected: it has no pool.
C23_CloseIsFinal ==
    closePc = "closed" =>
        /\ mNodes = EmptyMap
        /\ \A n \in closedNodes : ~n.connPool

(***************************************************************************)
(*            Heartbeat messages and the listener's decode loop            *)
(***************************************************************************)

HeartbeatModule == 0
HeartbeatCmd == 1
HeartbeatCode == 0

\* Bound: the frames written by the peer on one connection.
MaxSent == 2

\* "heartbeat"
HeartbeatSessionId == <<104, 101, 97, 114, 116, 98, 101, 97, 116>>

\* The frame SendHeartbeat writes
SendHeartbeat ==
    EncodeClusterReqMsg(ReqMsg(FromInt(HeartbeatModule), FromInt(HeartbeatCmd),
                               HeartbeatSessionId, <<>>))

\* A test that looks at the module only.
IsHeartbeatMsg_ModuleOnly(module, cmd) == module = FromInt(HeartbeatModule)

IsHeartbeatMsg(module, cmd) ==
    module = FromInt(HeartbeatModule) /\ cmd = FromInt(HeartbeatCmd)

\* A reply that carries the payload of the request.
HandleHeartbeatReq_KeepPayload(req) ==
    <<EncodeClusterRespMsg(RespMsg(req.Module, req.Cmd, req.SessionId,
                                   FromInt(HeartbeatCode), req.Payload))>>

\* HandleHeartbeatReq: the frames it writes on the connection
HandleHeartbeatReq(req) ==
    <<EncodeClusterRespMsg(RespMsg(req.Module, req.Cmd, req.SessionId,
                                   FromInt(HeartbeatCode), <<>>))>>

\* The frames one iteration of HandleConnection writes for a decoded message:
\* the heartbeat reply, the echo of any other request, nothing for a response.
HandleMsg(v) ==
    IF v.typ = "req"
    THEN IF IsHeartbeatMsg(v.Module, v.Cmd)
         THEN HandleHeartbeatReq(v)
         ELSE <<EncodeClusterRespMsg(RespMsg(v.Module, v.Cmd, v.SessionId,
                                             FromInt(0), v.Payload))>>
    ELSE <<>>

RECURSIVE Concat(_)
Concat(frames) == IF frames = <<>> THEN <<>> ELSE Head(frames) \o Concat(Tail(frames))

\* ---- inputs of the listener specification

\* (Module, Cmd) pairs around the heartbeat pair, also ones that agree with it
\* in the low 16 bits only.
ModuleCmds ==
    { <<FromInt(0), FromInt(0)>>, <<FromInt(0), FromInt(1)>>,
      <<FromInt(1), FromInt(0)>>, <<FromInt(1), FromInt(1)>>,
      <<FromInt(0), [hi |-> 1, lo |-> 1]>>, <<[hi |-> 1, lo |-> 0], FromInt(1)>> }

\* The frames the peer writes: requests with each pair, with and without a
\* payload, with the heartbeat session id or another; a response; and two
\* frames that do not decode (an unknown tag, a cut frame); frames whose
\* length field is smaller than the header of their variant, complete on the
\* stream; and streams that end inside the length field or before the tag.
PeerFrames ==
    { Encode(ReqMsg(mc[1], mc[2], HeartbeatSessionId, p)) :
          mc \in ModuleCmds, p \in {<<>>, <<255>>} }
    \cup { Encode(ReqMsg(FromInt(0), FromInt(1), <<97, 98>>, <<>>)),
           Encode(ReqMsg(FromInt(1), FromInt(1), <<97, 98>>, <<255>>)),
           Encode(RespMsg(FromInt(0), FromInt(1), <<97, 98>>, FromInt(0), <<>>)),
           PutUint32(FromInt(45)) \o <<2>>,
           [SendHeartbeat EXCEPT ![5] = 2],
           SubSeq(SendHeartbeat, 1, 20),
           PutUint32(FromInt(10)) \o <<MsgTypeRequest>> \o ZeroBytes(9),
           PutUint32(FromInt(46)) \o <<MsgTypeResponse>> \o ZeroBytes(45),
           PutUint32(FromInt(0)) \o <<MsgTypeRequest>>,
           <<0, 0>>,
           PutUint32(FromInt(45)) }

NoWrite == [kind |-> "none", data |-> <<>>]

\* One iteration of a decode loop: the bytes the reader held, the outcome of
\* DecodeMsg, the message, whether it was taken as a heartbeat, the frames written.
NoIteration ==
    [kind |-> "none", input |-> <<>>, msg |-> NoMsg, hb |-> FALSE, writes |-> <<>>]

ListenerInit ==
    /\ lIn = <<>>
    /\ lOut = <<>>
    /\ lConn = "open"
    /\ lSent = 0
    /\ cLast = NoWrite
    /\ lLast = NoIteration
    /\ rLast = NoIteration

\* The peer calls tcp.SendHeartbeat on its connection.
PeerSendHeartbeat ==
    /\ lSent < MaxSent
    /\ lSent' = lSent + 1
    /\ lIn' = IF lConn = "open" THEN lIn \o SendHeartbeat ELSE lIn
    /\ cLast' = [kind |-> "heartbeat", data |-> SendHeartbeat]
    /\ UNCHANGED <<lOut, lConn, lLast, rLast>>
    /\ UNCHANGED notListener

\* The peer writes any other frame.
PeerWrite(data) ==
    /\ lSent < MaxSent
    /\ lSent' = lSent + 1
    /\ lIn' = IF lConn = "open" THEN lIn \o data ELSE lIn
    /\ cLast' = [kind |-> "frame", data |-> data]
    /\ UNCHANGED <<lOut, lConn, lLast, rLast>>
    /\ UNCHANGED notListener

\* One iteration of the loop of HandleConnection with bytes to read: DecodeMsg,
\* then on an error return (the deferred conn.Close() runs), otherwise handle
\* the message and write what it asks for.
HandleFrame ==
    /\ lConn = "open"
    /\ lIn # <<>>
    /\ \E out \in {DecodeMsg(lIn)} :
          IF out.kind = "ok"
          THEN /\ lIn' = out.rest
               /\ lLast' = [kind |-> out.msg.typ, input |-> lIn, msg |-> out.msg,
                            hb |-> out.msg.typ = "req"
                                     /\ IsHeartbeatMsg(out.msg.Module, out.msg.Cmd),
                            writes |-> HandleMsg(out.msg)]
               /\ lOut' = lOut \o Concat(HandleMsg(out.msg))
               /\ UNCHANGED lConn
          ELSE /\ lIn' = <<>>
               /\ lLast' = [NoIteration EXCEPT !.kind = out.kind, !.input = lIn]
               /\ lConn' = IF out.kind = "panic" THEN "panic" ELSE "closed"
               /\ UNCHANGED lOut
    /\ UNCHANGED <<lSent, cLast, rLast>>
    /\ UNCHANGED notListener

\* DecodeMsg with nothing to read until the read deadline: an error, return.
ReadDeadline ==
    /\ lConn = "open"
    /\ lIn = <<>>
    /\ lSent = MaxSent
    /\ lConn' = "closed"
    /\ lLast' = [NoIteration EXCEPT !.kind = "err"]
    /\ UNCHANGED <<lIn, lOut, lSent, cLast, rLast>>
    /\ UNCHANGED notListener

\* One iteration of the loop of Node.receiveLoop on the peer's end with a
\* frame to read: a heartbeat response is dropped, any other response goes to
\* router.HandleResp, a request is logged.
ReceiveFrame ==
    /\ lOut # <<>>
    /\ \E out \in {DecodeMsg(lOut)} :
          /\ out.kind = "ok"
          /\ lOut' = out.rest
          /\ rLast' = [kind |-> out.msg.typ, input |-> lOut, msg |-> out.msg,
                       hb |-> out.msg.typ = "resp"
                                /\ IsHeartbeatMsg(out.msg.Module, out.msg.Cmd),
                       writes |-> <<>>]
    /\ UNCHANGED <<lIn, lConn, lSent, cLast, lLast>>
    /\ UNCHANGED notListener

\* The handler has returned and closed the connection; another connection is
\* accepted. After a panic in a handler goroutine there is no process left
\* to accept one.
NextConnection ==
    /\ lConn = "closed"
    /\ lOut = <<>>
    /\ lIn' = <<>>
    /\ lConn' = "open"
    /\ lSent' = 0
    /\ cLast' = NoWrite
    /\ lLast' = NoIteration
    /\ rLast' = NoIteration
    /\ UNCHANGED lOut
    /\ UNCHANGED notListener

ListenerNext ==
    \/ PeerSendHeartbeat
    \/ \E data \in PeerFrames : PeerWrite(data)
    \/ HandleFrame
    \/ ReadDeadline
    \/ ReceiveFrame
    \/ NextConnection

\* ---- claims on the heartbeat

Decoded(data) == DecodeMsg(data)

\* C9: for a heartbeat request (Module 0, Cmd 1) decoded by the listener's
\* loop, that iteration writes exactly one frame, and the frame is a response
\* with the request's Module, Cmd and SessionId, Code 0 and an empty payload.
C9_HeartbeatReply ==
    (lLast.kind = "req" /\ lLast.msg.Module = FromInt(0) /\ lLast.msg.Cmd = FromInt(1))
        => /\ Len(lLast.writes) = 1
           /\ Decoded(lLast.writes[1]) =
                 Outcome("ok", RespMsg(lLast.msg.Module, lLast.msg.Cmd,
                                       lLast.msg.SessionId, FromInt(0), <<>>), <<>>)

\* C9 witness: a heartbeat request that carried a payload was answered.
C9_Witness ==
    /\ lLast.kind = "req"
    /\ lLast.msg.Module = FromInt(0)
    /\ lLast.msg.Cmd = FromInt(1)
    /\ lLast.msg.Payload # <<>>
    /\ Len(lLast.writes) = 1

BadLength(r) ==
    /\ Len(r) >= 5
    /\ r[5] \in {MsgTypeRequest, MsgTypeResponse}
    /\ Uint32(SubSeq(r, 1, 4)).hi = 0
    /\ Uint32(SubSeq(r, 1, 4)).lo <
          (IF r[5] = MsgTypeRequest THEN ClusterReqHeaderSize
                                    ELSE ClusterRespHeaderSize) - 4

\* C26: an iteration of the listener's loop whose reader holds a frame with a
\* bad length ends with an error value from DecodeMsg and the connection
\* closed by the handler's return; it does not panic.
C26_BadLengthIsError ==
    (lLast.kind # "none" /\ BadLength(lLast.input))
        => (lLast.kind = "err" /\ lConn = "closed")

\* The stream r ends before the 4 length bytes, before the tag byte or before
\* the length - 1 bytes after the tag, or its tag byte is neither 0 nor 1.
ShortOrUnknown(r) ==
    \/ Len(r) < 4
    \/ Len(r) < 5
    \/ r[5] \notin {MsgTypeRequest, MsgTypeResponse}
    \/ LET len == Uint32(SubSeq(r, 1, 4))
       IN  len.hi > 0 \/ Len(r) - 5 < len.lo - 1

\* C27: DecodeMsg on a stream that ends early or carries an unknown tag returns
\* an error and no message.
C27_ShortReadIsError ==
    (lLast.kind # "none" /\ ShortOrUnknown(lLast.input))
        => (lLast.kind = "err" /\ lLast.msg = NoMsg)

\* C27 witness: a whole frame with the tag 2 was on the stream and the decode
\* returned an error.
C27_Witness ==
    /\ lLast.kind = "err"
    /\ Len(lLast.input) >= ClusterReqHeaderSize
    /\ lLast.input[5] = 2
    /\ lConn = "closed"

\* C29: a decode that fails ends the handler with the connection closed and
\* the process alive to serve other connections, and once the handler is over
\* nothing more is read from that connection or written to it.
C29_FailureClosesConnection ==
    /\ [](lLast.kind \in {"err", "panic"} => lConn = "closed")
    /\ [][ (lConn # "open" /\ lConn' # "open") =>
              (lLast' = lLast /\ Len(lOut') <= Len(lOut)) ]_vars

\* C30: for a decoded request that is not a heartbeat the listener writes no
\* reply of its own.
C30_NoReplyFromListener ==
    (lLast.kind = "req" /\ ~lLast.hb) => lLast.writes = <<>>

(***************************************************************************)
(*                                  Router                                 *)
(***************************************************************************)

\* A uint64 route key is kept as its four 16-bit words, most significant first.
\* A key made of the cmd alone, as a shift in 32 bits would leave it.
makeRouteKey_CmdOnly(module, cmd) == <<0, 0, cmd.hi, cmd.lo>>

\* makeRouteKey: (uint64(module) << 32) | uint64(cmd)
makeRouteKey(module, cmd) == <<module.hi, module.lo, cmd.hi, cmd.lo>>

\* The handlers of the application: each is a function of the payload whose
\* result is nil or an error of its own.
Handlers == {"h1", "h2"}

HandlerResult(h, payload) ==
    IF h = "h1" THEN "nil"
    ELSE IF payload = <<>> THEN "error of h2" ELSE "nil"

\* The (module, cmd) pairs used: small ones, and ones with a bit set in the
\* upper half of the module or of the cmd.
Routes ==
    { <<FromInt(0), FromInt(1)>>, <<FromInt(1), FromInt(0)>>, <<FromInt(1), FromInt(1)>>,
      <<FromInt(0), [hi |-> 1, lo |-> 0]>>, <<[hi |-> 1, lo |-> 0], FromInt(0)>> }

NoHandlers == [k \in {} |-> "none"]

NoDispatch == [module |-> FromInt(0), cmd |-> FromInt(0), payload |-> <<>>,
               invoked |-> <<>>, result |-> "none"]

RouterInit ==
    /\ handlers = NoHandlers
    /\ registered = NoHandlers
    /\ dispatched = NoDispatch

\* Router.Register
Register(module, cmd, handler) ==
    /\ handlers' = [k \in DOMAIN handlers \cup {makeRouteKey(module, cmd)} |->
                       IF k = makeRouteKey(module, cmd) THEN handler ELSE handlers[k]]
    /\ registered' = [p \in DOMAIN registered \cup {<<module, cmd>>} |->
                         IF p = <<module, cmd>> THEN handler ELSE registered[p]]
    /\ dispatched' = NoDispatch
    /\ UNCHANGED notRouter

\* Router.Unregister
Unregister(module, cmd) ==
    /\ handlers' = [k \in DOMAIN handlers \ {makeRouteKey(module, cmd)} |-> handlers[k]]
    /\ registered' = [p \in DOMAIN registered \ {<<module, cmd>>} |-> registered[p]]
    /\ dispatched' = NoDispatch
    /\ UNCHANGED notRouter

\* Router.Handle (HandleReq and HandleResp pass Module, Cmd and Payload on)
Handle(module, cmd, payload) ==
    /\ LET key == makeRouteKey(module, cmd)
       IN  dispatched' =
              IF key \notin DOMAIN handlers
              THEN [module |-> module, cmd |-> cmd, payload |-> payload,
                    invoked |-> <<>>, result |-> "not registered"]
              ELSE [module |-> module, cmd |-> cmd, payload |-> payload,
                    invoked |-> << <<handlers[key], payload>> >>,
                    result |-> HandlerResult(handlers[key], payload)]
    /\ UNCHANGED <<handlers, registered>>
    /\ UNCHANGED notRouter

RouterNext ==
    \/ \E r \in Routes, h \in Handlers : Register(r[1], r[2], h)
    \/ \E r \in Routes : Unregister(r[1], r[2])
    \/ \E r \in Routes, p \in {<<>>, <<7>>} : Handle(r[1], r[2], p)

\* ---- claims on the Router

\* C11: a Dispatch of (m, c, payload) with a handler h registered for (m, c)
\* invokes h exactly once, with that payload, and returns h's result; with none
\* registered (never, or unregistered since) it invokes no handler and returns
\* the not-registered error.
C11_Dispatch ==
    dispatched.result # "none" =>
        LET route == <<dispatched.module, dispatched.cmd>>
        IN  IF route \in DOMAIN registered
            THEN /\ dispatched.invoked = << <<registered[route], dispatched.payload>> >>
                 /\ dispatched.result = HandlerResult(registered[route], dispatched.payload)
            ELSE /\ dispatched.invoked = <<>>
                 /\ dispatched.result = "not registered"

\* C11 witness: a Dispatch found nothing for a pair while a handler was
\* registered for the pair with the same cmd and another module.
C11_Witness ==
    /\ dispatched.result = "not registered"
    /\ \E p \in DOMAIN registered :
          p[2] = dispatched.cmd /\ p[1] # dispatched.module

\* The 32-bit values the key is tried on: every value made of the words 0, 1
\* and 65535 in its upper and lower half.
KeyWords == {0, 1, 65535}

KeyValues == {[hi |-> h, lo |-> l] : h \in KeyWords, l \in KeyWords}

\* C31: makeRouteKey gives different keys to different (module, cmd) pairs, so
\* the handlers map holds one entry per registered pair, the handler of that
\* pair, and a Dispatch invokes only the handler registered under its own pair.
C31_KeyInjective ==
    /\ \A m1 \in KeyValues, c1 \in KeyValues, m2 \in KeyValues, c2 \in KeyValues :
          makeRouteKey(m1, c1) = makeRouteKey(m2, c2) => (m1 = m2 /\ c1 = c2)
    /\ \A p \in DOMAIN registered :
          /\ makeRouteKey(p[1], p[2]) \in DOMAIN handlers
          /\ handlers[makeRouteKey(p[1], p[2])] = registered[p]
    /\ \A k \in DOMAIN handlers :
          \E p \in DOMAIN registered : makeRouteKey(p[1], p[2]) = k
    /\ \A i \in 1..Len(dispatched.invoked) :
          /\ <<dispatched.module, dispatched.cmd>> \in DOMAIN registered
          /\ dispatched.invoked[i][1] = registered[<<dispatched.module, dispatched.cmd>>]

\* C31 witness: (0, 1) and (1, 0) are registered with different handlers, as
\* are (0, 65536) and (65536, 0), and a Dispatch of (1, 0) invoked its handler.
C31_Witness ==
    /\ <<FromInt(0), FromInt(1)>> \in DOMAIN registered
    /\ <<FromInt(1), FromInt(0)>> \in DOMAIN registered
    /\ registered[<<FromInt(0), FromInt(1)>>] # registered[<<FromInt(1), FromInt(0)>>]
    /\ <<FromInt(0), [hi |-> 1, lo |-> 0]>> \in DOMAIN registered
    /\ <<[hi |-> 1, lo |-> 0], FromInt(0)>> \in DOMAIN registered
    /\ registered[<<FromInt(0), [hi |-> 1, lo |-> 0]>>]
          # registered[<<[hi |-> 1, lo |-> 0], FromInt(0)>>]
    /\ dispatched.module = FromInt(1)
    /\ dispatched.cmd = FromInt(0)
    /\ dispatched.invoked # <<>>

(***************************************************************************)
(*                      Node: the receive loop                             *)
(***************************************************************************)

\* Bound of the receive-loop specification: frames the remote end writes.
MaxRecv == 2

\* The (module, cmd) pairs handlers are registered for on the node's router:
\* a business pair and the heartbeat pair.
RecvRoutes == { <<FromInt(1), FromInt(1)>>, <<FromInt(0), FromInt(1)>> }

\* What the remote end writes: a heartbeat response, business responses with
\* and without a payload, a request, a frame with an unknown tag, a cut frame
\* and a response whose length field is smaller than its header.
RemoteFrames ==
    { Encode(RespMsg(FromInt(HeartbeatModule), FromInt(HeartbeatCmd),
                     HeartbeatSessionId, FromInt(HeartbeatCode), <<>>)),
      Encode(RespMsg(FromInt(1), FromInt(1), <<97, 98>>, FromInt(0), <<>>)),
      Encode(RespMsg(FromInt(1), FromInt(1), <<97, 98>>, FromInt(0), <<7>>)),
      Encode(RespMsg(FromInt(1), FromInt(0), <<97, 98>>, FromInt(0), <<>>)),
      Encode(ReqMsg(FromInt(1), FromInt(1), <<97, 98>>, <<>>)),
      [SendHeartbeat EXCEPT ![5] = 2],
      SubSeq(SendHeartbeat, 1, 20),
      PutUint32(FromInt(46)) \o <<MsgTypeResponse>> \o ZeroBytes(45) }

NoRecv == [kind |-> "none", msg |-> NoMsg, hb |-> FALSE, invoked |-> <<>>,
           result |-> "none"]

ReceiveInit ==
    /\ rIn = <<>>
    /\ rSent = 0
    /\ rPc = "loop"
    /\ rStop = FALSE
    /\ rReconnect = 0
    /\ rIter = NoRecv

\* The remote end writes a frame on the connection.
RemoteWrite(data) ==
    /\ rPc = "loop"
    /\ rSent < MaxRecv
    /\ rSent' = rSent + 1
    /\ rIn' = rIn \o data
    /\ UNCHANGED <<rPc, rStop, rReconnect, rIter>>
    /\ UNCHANGED notRecv

\* router.HandleResp(v): Router.Handle on Module, Cmd and Payload; the handler
\* invocations made and the value returned.
HandleResp(v) ==
    LET key == makeRouteKey(v.Module, v.Cmd)
    IN  IF key \notin DOMAIN handlers
        THEN [invoked |-> <<>>, result |-> "not registered"]
        ELSE [invoked |-> << <<handlers[key], v.Payload>> >>,
              result |-> HandlerResult(handlers[key], v.Payload)]

\* What one iteration does with a decoded message: a request is logged, a
\* heartbeat response is skipped, any other response goes to HandleResp and an
\* error it returns is logged.
Dispatched(v) ==
    IF v.typ = "resp" /\ ~IsHeartbeatMsg(v.Module, v.Cmd)
    THEN HandleResp(v)
    ELSE [invoked |-> <<>>, result |-> "none"]

\* One iteration of the loop with bytes to read (the default case of the
\* select): DecodeMsg; on an error signal a reconnect and return; otherwise
\* dispatch the message and go on. A decode that panics ends the goroutine and
\* the process with it.
ReceiveIteration ==
    /\ rPc = "loop"
    /\ rIn # <<>>
    /\ \E out \in {DecodeMsg(rIn)} :
          IF out.kind = "ok"
          THEN /\ rIn' = out.rest
               /\ rIter' = [kind |-> out.msg.typ, msg |-> out.msg,
                            hb |-> out.msg.typ = "resp"
                                     /\ IsHeartbeatMsg(out.msg.Module, out.msg.Cmd),
                            invoked |-> Dispatched(out.msg).invoked,
                            result |-> Dispatched(out.msg).result]
               /\ UNCHANGED <<rPc, rReconnect>>
          ELSE /\ rIn' = <<>>
               /\ rIter' = [NoRecv EXCEPT !.kind = out.kind]
               /\ rPc' = IF out.kind = "panic" THEN "panic" ELSE "returned"
               /\ rReconnect' = IF out.kind = "panic" THEN rReconnect
                                ELSE SignalReconnect(rReconnect)
    /\ UNCHANGED <<rSent, rStop>>
    /\ UNCHANGED notRecv

\* The remote end closes the connection: DecodeMsg fails on the empty stream.
ReceiveEOF ==
    /\ rPc = "loop"
    /\ rIn = <<>>
    /\ rSent = MaxRecv
    /\ rIter' = [NoRecv EXCEPT !.kind = "err"]
    /\ rPc' = "returned"
    /\ rReconnect' = SignalReconnect(rReconnect)
    /\ UNCHANGED <<rIn, rSent, rStop>>
    /\ UNCHANGED notRecv

\* Disconnect closes n.stopChan.
ReceiveStopChanClosed ==
    /\ rPc = "loop"
    /\ ~rStop
    /\ rStop' = TRUE
    /\ UNCHANGED <<rIn, rSent, rPc, rReconnect, rIter>>
    /\ UNCHANGED notRecv

\* The stopChan case of the select at the top of an iteration.
ReceiveStop ==
    /\ rPc = "loop"
    /\ rStop
    /\ rPc' = "returned"
    /\ rIter' = [NoRecv EXCEPT !.kind = "stop"]
    /\ UNCHANGED <<rIn, rSent, rStop, rReconnect>>
    /\ UNCHANGED notRecv

ReceiveNext ==
    \/ \E data \in RemoteFrames : RemoteWrite(data)
    \/ ReceiveIteration
    \/ ReceiveEOF
    \/ ReceiveStopChanClosed
    \/ ReceiveStop
    \/ \E r \in RecvRoutes, h \in Handlers : Register(r[1], r[2], h)

\* ---- claims on the receive loop

\* C39: a decoded heartbeat response is not passed to the Router; a response
\* for which HandleResp returns an error leaves the loop running on the rest of
\* the stream; and the loop ends only on a decode error, with a reconnect
\* signal pending.
C39_ReceiveLoop ==
    /\ [](rIter.hb => (rIter.invoked = <<>> /\ rIter.result = "none"))
    /\ [][ (rIter' # rIter /\ rIter'.result \in {"not registered", "error of h2"})
              => (rPc' = "loop" /\ rIn' = DecodeMsg(rIn).rest) ]_vars
    /\ [][ (rPc = "loop" /\ rPc' # "loop")
              => (rIter'.kind = "err" /\ rReconnect' = 1) ]_vars

(***************************************************************************)
(*                 TCP Server: accept loop, Start and Stop                 *)
(***************************************************************************)

\* Bound of the server specification: connections the clients open.
MaxConns == 2

NoServerCall == [op |-> "none", err |-> FALSE]

\* NewServer: the listener is open, the context is live, no connection is
\* tracked and the server is not running.
ServerInit ==
    /\ sRunning = FALSE
    /\ sListener = "open"
    /\ sCtxDone = FALSE
    /\ sConns = {}
    /\ sWg = 0
    /\ sHandlers = {}
    /\ sOpen = {}
    /\ sDialed = 0
    /\ acceptPc = "none"
    /\ acceptConn = 0
    /\ stopPc = "idle"
    /\ sLast = NoServerCall

\* Start on a server that is not running: the flag is set and the accept loop
\* is entered.
StartCall ==
    /\ ~sRunning
    /\ acceptPc \in {"none", "returned"}
    /\ sRunning' = TRUE
    /\ acceptPc' = "accept"
    /\ sLast' = NoServerCall
    /\ UNCHANGED <<sListener, sCtxDone, sConns, sWg, sHandlers, sOpen, sDialed,
                   acceptConn, stopPc>>
    /\ UNCHANGED notServer

\* Start on a running server: the CompareAndSwap fails and an error is returned.
StartWhileRunning ==
    /\ sRunning
    /\ sLast' = [op |-> "Start", err |-> TRUE]
    /\ UNCHANGED <<sRunning, sListener, sCtxDone, sConns, sWg, sHandlers, sOpen,
                   sDialed, acceptPc, acceptConn, stopPc>>
    /\ UNCHANGED notServer

\* s.listener.Accept() returns a connection a client opened.
Accept ==
    /\ acceptPc = "accept"
    /\ sListener = "open"
    /\ sDialed < MaxConns
    /\ sDialed' = sDialed + 1
    /\ acceptConn' = sDialed + 1
    /\ sOpen' = sOpen \cup {sDialed + 1}
    /\ acceptPc' = "accepted"
    /\ sLast' = NoServerCall
    /\ UNCHANGED <<sRunning, sListener, sCtxDone, sConns, sWg, sHandlers, stopPc>>
    /\ UNCHANGED notServer

\* Accept returns an error on the closed listener: with the context cancelled
\* Start returns nil, otherwise the error is logged and Accept is called again.
AcceptFails ==
    /\ acceptPc = "accept"
    /\ sListener = "closed"
    /\ acceptPc' = IF sCtxDone THEN "returned" ELSE "accept"
    /\ sLast' = IF sCtxDone THEN [op |-> "accept loop", err |-> FALSE] ELSE NoServerCall
    /\ UNCHANGED <<sRunning, sListener, sCtxDone, sConns, sWg, sHandlers, sOpen,
                   sDialed, acceptConn, stopPc>>
    /\ UNCHANGED notServer

\* s.addConn(conn) in the accept loop
addConn ==
    /\ acceptPc = "accepted"
    /\ sConns' = sConns \cup {acceptConn}
    /\ acceptPc' = "added"
    /\ sLast' = NoServerCall
    /\ UNCHANGED <<sRunning, sListener, sCtxDone, sWg, sHandlers, sOpen, sDialed,
                   acceptConn, stopPc>>
    /\ UNCHANGED notServer

\* s.wg.Add(1) and the go statement that runs the handler of the connection
SpawnHandler ==
    /\ acceptPc = "added"
    /\ sWg' = sWg + 1
    /\ sHandlers' = sHandlers \cup {acceptConn}
    /\ acceptPc' = "accept"
    /\ sLast' = NoServerCall
    /\ UNCHANGED <<sRunning, sListener, sCtxDone, sConns, sOpen, sDialed,
                   acceptConn, stopPc>>
    /\ UNCHANGED notServer

\* The handler of connection c returns: its DecodeMsg failed because the
\* connection was closed, the client hung up or the read deadline passed. The
\* deferred calls close the connection, remove it from s.conns and call wg.Done.
HandlerReturns(c) ==
    /\ c \in sHandlers
    /\ sHandlers' = sHandlers \ {c}
    /\ sOpen' = sOpen \ {c}
    /\ sConns' = sConns \ {c}
    /\ sWg' = sWg - 1
    /\ sLast' = NoServerCall
    /\ UNCHANGED <<sRunning, sListener, sCtxDone, sDialed, acceptPc, acceptConn, stopPc>>
    /\ UNCHANGED notServer

\* Stop on a running server, first part: the flag is cleared, the context is
\* cancelled and the listener is closed.
StopCall ==
    /\ sRunning
    /\ stopPc \in {"idle", "returned"}
    /\ sRunning' = FALSE
    /\ sCtxDone' = TRUE
    /\ sListener' = "closed"
    /\ stopPc' = "closeAll"
    /\ sLast' = NoServerCall
    /\ UNCHANGED <<sConns, sWg, sHandlers, sOpen, sDialed, acceptPc, acceptConn>>
    /\ UNCHANGED notServer

\* Stop on a server that is not running: the CompareAndSwap fails, return.
StopNotRunning ==
    /\ ~sRunning
    /\ stopPc \in {"idle", "returned"}
    /\ sLast' = [op |-> "Stop", err |-> FALSE]
    /\ UNCHANGED <<sRunning, sListener, sCtxDone, sConns, sWg, sHandlers, sOpen,
                   sDialed, acceptPc, acceptConn, stopPc>>
    /\ UNCHANGED notServer

\* s.closeAllConns(): close every tracked connection and start a new map.
closeAllConns ==
    /\ stopPc = "closeAll"
    /\ sOpen' = sOpen \ sConns
    /\ sConns' = {}
    /\ stopPc' = "wait"
    /\ sLast' = NoServerCall
    /\ UNCHANGED <<sRunning, sListener, sCtxDone, sWg, sHandlers, sDialed,
                   acceptPc, acceptConn>>
    /\ UNCHANGED notServer

\* s.wg.Wait() returns with the counter at zero, and Stop returns.
StopWaitDone ==
    /\ stopPc = "wait"
    /\ sWg = 0
    /\ stopPc' = "returned"
    /\ sLast' = NoServerCall
    /\ UNCHANGED <<sRunning, sListener, sCtxDone, sConns, sWg, sHandlers, sOpen,
                   sDialed, acceptPc, acceptConn>>
    /\ UNCHANGED notServer

ServerNext ==
    \/ StartCall
    \/ StartWhileRunning
    \/ Accept
    \/ AcceptFails
    \/ addConn
    \/ SpawnHandler
    \/ \E c \in 1..MaxConns : HandlerReturns(c)
    \/ StopCall
    \/ StopNotRunning
    \/ closeAllConns
    \/ StopWaitDone

\* ---- claims on the Server

\* C40: once Stop has returned no handler is running and no connection is
\* tracked, and it stays so; a Start on a running server returns an error and
\* a Stop on a server that is not running returns, both without any effect.
C40_StopIsComplete ==
    /\ [](stopPc = "returned" => (sHandlers = {} /\ sConns = {}))
    /\ [][ (sLast' # sLast /\ sLast'.op = "Start") =>
              (sLast'.err /\ UNCHANGED <<sRunning, sListener, sCtxDone, sConns, sWg,
                                         sHandlers, sOpen, acceptPc, stopPc>>) ]_vars
    /\ [][ (sLast' # sLast /\ sLast'.op = "Stop") =>
              UNCHANGED <<sRunning, sListener, sCtxDone, sConns, sWg, sHandlers,
                          sOpen, acceptPc, stopPc>> ]_vars

(***************************************************************************)
(*                             Specifications                              *)
(***************************************************************************)

\* Every specification starts from the same state: nothing written, no pool built.
Init ==
    /\ CodecInit
    /\ PoolIdle
    /\ ManagerInit
    /\ SourceInit
    /\ RegistryInit
    /\ NodeInit
    /\ ListenerInit
    /\ RouterInit
    /\ ReceiveInit
    /\ ServerInit

SpecCodec == Init /\ [][CodecNext]_vars

SpecPool == Init /\ [][PoolNext]_vars

SpecPoolAny == Init /\ [][PoolAnyNext]_vars

SpecManager == Init /\ [][ManagerNext]_vars

\* The watch loop with a source that keeps answering: a response the loop is
\* waiting for arrives, whatever errors come before it.
SpecWatchFair ==
    /\ Init
    /\ [][WatchNext]_vars
    /\ WF_vars(WatchFirst)
    /\ WF_vars(WatchChanged)

SpecRegistry == Init /\ [][RegistryNext]_vars

SpecNode == Init /\ [][NodeNext]_vars

\* The node with its goroutines scheduled: the monitor, the heartbeat loop, the
\* retry timer and the clock each take the step they are ready for, a dial
\* ends, and a dial that is tried again and again succeeds at some point (the
\* peer is reachable in the end). Calls of the application are not forced.
SpecNodeFair ==
    /\ Init
    /\ [][NodeNext]_vars
    /\ WF_vars(TryReconnectBegin)
    /\ WF_vars(\E ok \in BOOLEAN, n \in 1..NodeConns : TryReconnectDone(ok, n))
    /\ SF_vars(\E n \in 1..NodeConns : TryReconnectDone(TRUE, n))
    /\ WF_vars(\E ok \in BOOLEAN, n \in 1..NodeConns : ConnectDone(ok, n))
    /\ WF_vars(RetryTimerFires)
    /\ WF_vars(AdvanceTime)
    /\ WF_vars(\E failed \in SUBSET (0..(NodeConns - 1)) : HeartbeatTick(failed))
    /\ WF_vars(HeartbeatStop)
    /\ WF_vars(MonitorStop)

SpecListener == Init /\ [][ListenerNext]_vars

SpecRouter == Init /\ [][RouterNext]_vars

SpecReceive == Init /\ [][ReceiveNext]_vars

SpecServer == Init /\ [][ServerNext]_vars

=============================================================================
